---- MODULE Spec2Model ----
(***************************************************************************)
(* Model of the UDP game server of src/server/game_server.c: the session   *)
(* and spectator tables, the outbound sequence counter, the NPC state      *)
(* machines and the cooperative main loop.  The named-pipe mock server of  *)
(* src/server/fifo_server.c is modelled beside it in the variable fifo.    *)
(*                                                                         *)
(* Conventions.  Table slots are numbered 0..N-1 as in the C arrays.  An   *)
(* endpoint (sin_addr, sin_port) is one value of Endpoints; NoAddr is the  *)
(* zeroed sockaddr_in.  A pointer result is a slot index, NULL is -1.      *)
(* Floats are fixed point: positions count 1/UNIT of a world unit, timers  *)
(* and tick deltas count milliseconds, health counts whole points.         *)
(* PlayerData keeps the fields the server reads or writes (player_id, pos, *)
(* state, health, active); rot_y, combat_mode, character_class and         *)
(* anim_name are opaque bytes copied along with them.                      *)
(***************************************************************************)
EXTENDS Integers, Sequences, FiniteSets, TLC

\* ------------------------------------------------------------ constants
MAX_PLAYERS == 32
MAX_SPECTATORS == 32
MAX_BOBBAS == 4
MAX_DRAGONS == 1
MAX_ENTITIES == 64
PLAYER_TIMEOUT_SEC == 10

STATE_IDLE == 0
STATE_WALKING == 1
STATE_ATTACKING == 3

PKT_JOIN == 1
PKT_JOIN_ACK == 2
PKT_LEAVE == 3
PKT_WORLD_STATE == 4
PKT_UPDATE == 5
PKT_PING == 7
PKT_PONG == 8
PKT_ENTITY_STATE == 9
PKT_ENTITY_DAMAGE == 10
PKT_ARROW_SPAWN == 11
PKT_ARROW_HIT == 12
PKT_HEARTBEAT == 14
PKT_SPECTATE == 15
PKT_SPECTATE_ACK == 16
PKT_PLAYER_DAMAGE == 17
PKT_GAME_RESTART == 18

ENTITY_BOBBA == 0
ENTITY_DRAGON == 1

BOBBA_ROAMING == 0
BOBBA_CHASING == 1
BOBBA_ATTACKING == 2
BOBBA_IDLE == 3
BOBBA_STUNNED == 4

DRAGON_PATROL == 0
DRAGON_FLYING_TO_LAND == 1
DRAGON_LANDING == 2
DRAGON_WAIT == 3
DRAGON_TAKING_OFF == 4
DRAGON_ATTACKING == 5

\* Fixed-point scale of the float coordinates: UNIT steps per world unit.
UNIT == 20

\* Distances in 1/UNIT, speeds in 1/UNIT per second, times in ms.
BOBBA_DETECTION_RADIUS == 10 * UNIT
BOBBA_LOSE_RADIUS == 20 * UNIT
BOBBA_ATTACK_DISTANCE == 2 * UNIT
BOBBA_ROAM_SPEED == 2 * UNIT
BOBBA_CHASE_SPEED == 5 * UNIT
BOBBA_ROAM_CHANGE_TIME == 3000
BOBBA_ATTACK_DURATION == 1500
BOBBA_ATTACK_DAMAGE == 70
BOBBA_KNOCKBACK_FORCE == 12
\* The hit window, in tenths of the attack.
BOBBA_HIT_WINDOW_START == 3
BOBBA_HIT_WINDOW_END == 7
BOBBA_STUN_TIME == 500

DRAGON_PATROL_RADIUS == 100 * UNIT
DRAGON_PATROL_HEIGHT == 80 * UNIT
DRAGON_PATROL_SPEED == 25 * UNIT
DRAGON_LAPS_BEFORE_LANDING == 2
DRAGON_WAIT_TIME == 5000
DRAGON_ATTACK_TIME == 2000
DRAGON_ATTACK_RANGE == 40 * UNIT
DRAGON_LANDING_SPOT == <<0, 5 * UNIT, 50 * UNIT>>
\* patrol_angle counts the angle swept in one millisecond of patrol,
\* DRAGON_PATROL_SPEED / DRAGON_PATROL_RADIUS / 1000 rad; 2*pi in that unit.
TWO_PI == 25133

\* ------------------------------------------------------------ bounds
NumEndpoints == 2
MaxId == 3
MaxSeq == 4
MaxTime == 12
MaxClientSeq == 1
\* The values of the 32-bit outbound counter: ++state_sequence wraps.
SeqModulus == 256

Endpoints == 1..NumEndpoints
\* As many endpoints as there are player slots, and one more.
Crowd == 1..MAX_PLAYERS
Late == MAX_PLAYERS + 1
NoAddr == 0
NULL == -1
PlayerSlots == 0..(MAX_PLAYERS - 1)
BobbaSlots == 0..(MAX_BOBBAS - 1)
DragonSlots == 0..(MAX_DRAGONS - 1)
SpectatorSlots == 0..(MAX_SPECTATORS - 1)
ClaimedIds == 0..MaxId
ClientSeqs == 0..MaxClientSeq

VARIABLES
    players,          \* Player players[MAX_PLAYERS]
    spectators,       \* Spectator spectators[MAX_SPECTATORS]
    bobbas,           \* ServerBobba bobbas[MAX_BOBBAS]
    dragons,          \* ServerDragon dragons[MAX_DRAGONS]
    next_player_id,   \* identifier allocator
    test_multiplayer, \* the --test-multiplayer switch
    state_sequence,   \* outbound sequence counter
    now,              \* time(NULL), in seconds since the server started
    pc,               \* position in the body of the main loop
    sent,             \* the sendto() calls of the last step, in order
    lastIn,           \* the datagram dispatched by the last step
    lastSeq,          \* per message kind, the sequence of its last emission
    issued,           \* the identifiers the join-acks assigned, in order
    heard,            \* per endpoint, when its last datagram was dispatched
    attack,           \* per Bobba slot, the record of its latest attack
    fifo              \* the state of the FIFO mock server

vars == <<players, spectators, bobbas, dragons, next_player_id,
          test_multiplayer, state_sequence, now, pc, sent, lastIn, lastSeq,
          issued, heard, attack, fifo>>

npcs == <<bobbas, dragons>>

\* The counter `n` increments after `seq`.
Incr(seq, n) == (seq + n) % SeqModulus

\* ------------------------------------------------------------ records
ZeroPlayerData ==
    [player_id |-> 0, pos |-> <<0, 0, 0>>, state |-> 0, health |-> 0,
     active |-> 0]

ZeroPlayer ==
    [player_id |-> 0, addr |-> NoAddr, last_seen |-> 0,
     data |-> ZeroPlayerData, active |-> 0]

ZeroSpectator == [addr |-> NoAddr, last_seen |-> 0, active |-> 0]

ZeroBobba ==
    [entity_id |-> 0, pos |-> <<0, 0, 0>>, state |-> 0, health |-> 0,
     active |-> 0, target_player_id |-> 0, roam_dir |-> <<0, 0>>,
     roam_timer |-> 0, attack_timer |-> 0, attack_start_time |-> 0,
     stun_timer |-> 0, has_hit_this_attack |-> 0]

ZeroDragon ==
    [entity_id |-> 0, pos |-> <<0, 0, 0>>, state |-> 0, health |-> 0,
     active |-> 0, patrol_angle |-> 0, patrol_center |-> <<0, 0>>,
     laps_completed |-> 0, wait_timer |-> 0, attack_timer |-> 0,
     target_player_id |-> 0]

\* The position main() spawns the Bobba at, and respawn_all_bobbas() resets
\* it to.
BOBBA_SPAWN == <<5 * UNIT, 0, 5 * UNIT>>

\* (cos(angle), sin(angle)) of the random roam angle, drawn along the x axis.
RoamDirs == { <<1, 0>>, <<-1, 0>> }

spawn_points ==
    << <<-60 * UNIT, 2 * UNIT, -80 * UNIT>>,
       <<-40 * UNIT, 2 * UNIT, -100 * UNIT>>,
       <<-80 * UNIT, 2 * UNIT, -40 * UNIT>> >>

\* generate_spawn_position when rand() % 3 draws spawn point k and the
\* random offset has distance 0.
generate_spawn_position(k) == spawn_points[k]

\* ------------------------------------------------------------ lookups
Min(S) == CHOOSE x \in S : \A y \in S : x <= y

SameAddr(a, b) == a = b

\* A lookup that finds no session.
find_player_by_addr_none(ps, addr) == NULL

find_player_by_addr(ps, addr) ==
    LET hit == { i \in PlayerSlots :
                   ps[i].active = 1 /\ SameAddr(ps[i].addr, addr) }
    IN  IF hit = {} THEN NULL ELSE Min(hit)

find_player_by_id(ps, id) ==
    LET hit == { i \in PlayerSlots :
                   ps[i].active = 1 /\ ps[i].player_id = id }
    IN  IF hit = {} THEN NULL ELSE Min(hit)

find_free_slot(ps) ==
    LET free == { i \in PlayerSlots : ps[i].active = 0 }
    IN  IF free = {} THEN NULL ELSE Min(free)

count_active_players(ps) ==
    Cardinality({ i \in PlayerSlots : ps[i].active = 1 })

find_spectator_by_addr(sp, addr) ==
    LET hit == { i \in SpectatorSlots :
                   sp[i].active = 1 /\ SameAddr(sp[i].addr, addr) }
    IN  IF hit = {} THEN NULL ELSE Min(hit)

find_free_spectator_slot(sp) ==
    LET free == { i \in SpectatorSlots : sp[i].active = 0 }
    IN  IF free = {} THEN NULL ELSE Min(free)

\* The slots a `for (i = 0; i < N; i++)` loop finds active, in the order
\* in which it visits them.
ActiveIn(table, n) ==
    SelectSeq([k \in 1..n |-> k - 1], LAMBDA i : table[i].active = 1)

ActivePlayerSlots(ps) == ActiveIn(ps, MAX_PLAYERS)

ActiveSpectatorSlots(sp) == ActiveIn(sp, MAX_SPECTATORS)

\* ------------------------------------------------------------ messages
\* One sendto() per recipient of `to`, all with the same datagram.
Packet(type, sequence, player_id, body, to) ==
    [type |-> type, sequence |-> sequence, player_id |-> player_id,
     body |-> body, to |-> to]

\* The sizes of the packed structs, field by field.
sizeof_PacketHeader == 1 + 4 + 4

sizeof_PlayerData == 4 + 12 + 4 + 1 + 1 + 1 + 4 + 32 + 1

sizeof_WorldStatePacket ==
    sizeof_PacketHeader + 4 + 1 + MAX_PLAYERS * sizeof_PlayerData

\* The addresses a broadcast loops over: active players, then spectators.
PlayerAddrs(ps) ==
    LET act == ActivePlayerSlots(ps)
    IN  [k \in 1..Len(act) |-> ps[act[k]].addr]

SpectatorAddrs(sp) ==
    LET act == ActiveSpectatorSlots(sp)
    IN  [k \in 1..Len(act) |-> sp[act[k]].addr]

\* The records of the slots whose record flag is up.
WorldStateRecords_flag(ps) ==
    LET act == SelectSeq([k \in 1..MAX_PLAYERS |-> k - 1],
                         LAMBDA i : ps[i].data.active = 1)
    IN  [k \in 1..Len(act) |-> ps[act[k]].data]

\* The records broadcast_world_state copies into the packet.
WorldStateRecords(ps) ==
    LET act == ActivePlayerSlots(ps)
    IN  [k \in 1..Len(act) |-> ps[act[k]].data]

\* A world state whose state-sequence field tells the counter as it was.
broadcast_world_state_lagging(ps, sp, seq) ==
    LET recs == WorldStateRecords(ps)
    IN  Packet(PKT_WORLD_STATE, Incr(seq, 1), 0,
               [state_seq |-> seq, player_count |-> Len(recs),
                players |-> recs, len |-> sizeof_WorldStatePacket],
               PlayerAddrs(ps) \o SpectatorAddrs(sp))

\* broadcast_world_state(), called with the counter at `seq`: the packet it
\* sends; the counter afterwards is seq + 1.  len is the length handed to
\* sendto, sizeof(packet).
broadcast_world_state(ps, sp, seq) ==
    LET recs == WorldStateRecords(ps)
    IN  Packet(PKT_WORLD_STATE, Incr(seq, 1), 0,
               [state_seq |-> Incr(seq, 1), player_count |-> Len(recs),
                players |-> recs, len |-> sizeof_WorldStatePacket],
               PlayerAddrs(ps) \o SpectatorAddrs(sp))

\* The kinds of message the server originates.
MsgKinds ==
    {PKT_JOIN_ACK, PKT_WORLD_STATE, PKT_PONG, PKT_ENTITY_STATE,
     PKT_SPECTATE_ACK, PKT_PLAYER_DAMAGE, PKT_GAME_RESTART}

RECURSIVE NoteSeq(_, _)
NoteSeq(ls, out) ==
    IF out = <<>> THEN ls
    ELSE NoteSeq(IF Head(out).type \in MsgKinds
                 THEN [ls EXCEPT ![Head(out).type] = Head(out).sequence]
                 ELSE ls,
                 Tail(out))

\* The identifiers the join-acks among `out` assign.
AssignedIds(out) ==
    LET acks == SelectSeq(out, LAMBDA m : m.type = PKT_JOIN_ACK)
    IN  [k \in 1..Len(acks) |-> acks[k].body.assigned_id]

\* A received datagram: its header, its sender, whether recv_len covers the
\* whole packet of its kind, and the payload the handler reads.
Datagram(type, from, id, seq, full, body) ==
    [type |-> type, from |-> from, player_id |-> id, sequence |-> seq,
     full |-> full, body |-> body]

NoPacket == Datagram(0, NoAddr, 0, 0, FALSE, 0)

\* ------------------------------------------------------------ geometry
Sq(x) == x * x

\* The square of distance_3d(p, q); `dist <= r` is Within, `dist < r` Inside.
Dist2(p, q) == Sq(q[1] - p[1]) + Sq(q[2] - p[2]) + Sq(q[3] - p[3])

Within(p, q, r) == Dist2(p, q) <= Sq(r)

Inside(p, q, r) == Dist2(p, q) < Sq(r)

RECURSIVE SqrtBetween(_, _, _)
SqrtBetween(n, lo, hi) ==
    IF lo = hi THEN lo
    ELSE LET mid == (lo + hi + 1) \div 2
         IN  IF mid * mid <= n THEN SqrtBetween(n, mid, hi)
             ELSE SqrtBetween(n, lo, mid - 1)

\* sqrt(), rounded down to a whole 1/UNIT.
ISqrt(n) == SqrtBetween(n, 0, 46340)

\* A step of `speed * delta` from p towards q along the unit vector of
\* (dx, dy, dz): the `dx /= len; pos_x += dx * speed * delta` idiom.
StepToward(p, q, speed, delta) ==
    LET len == ISqrt(Dist2(p, q))
        step == (speed * delta) \div 1000
    IN  [k \in 1..3 |-> p[k] + ((q[k] - p[k]) * step) \div len]

\* A search that settles for the first active slot.
find_nearest_player_first(ps, pos) ==
    LET act == { i \in PlayerSlots : ps[i].active = 1 }
    IN  IF act = {} THEN NULL ELSE Min(act)

\* find_nearest_player: the first active slot at the smallest distance.
find_nearest_player(ps, pos) ==
    LET act == { i \in PlayerSlots : ps[i].active = 1 }
        near == { i \in act : \A j \in act :
                    Dist2(pos, ps[i].data.pos) <= Dist2(pos, ps[j].data.pos) }
    IN  IF act = {} THEN NULL ELSE Min(near)

\* ------------------------------------------------------------ chaser AI
\* send_player_damage: the packets sent (none if the target is no active
\* session); each takes the next value of the counter.
send_player_damage(ps, seq, target_player_id, damage, attacker_entity_id, kb) ==
    IF find_player_by_id(ps, target_player_id) = NULL THEN <<>>
    ELSE << Packet(PKT_PLAYER_DAMAGE, Incr(seq, 1), 0,
                   [target_player_id |-> target_player_id,
                    damage |-> damage,
                    attacker_entity_id |-> attacker_entity_id,
                    knockback |-> kb],
                   << ps[find_player_by_id(ps, target_player_id)].addr >>) >>

\* BOBBA_HIT_WINDOW_START <= 1 - attack_timer/attack_start_time
\*                        <= BOBBA_HIT_WINDOW_END
InHitWindow(b) ==
    /\ (b.attack_start_time - b.attack_timer) * 10
          >= BOBBA_HIT_WINDOW_START * b.attack_start_time
    /\ (b.attack_start_time - b.attack_timer) * 10
          <= BOBBA_HIT_WINDOW_END * b.attack_start_time

\* The knockback vector, in tenths: horizontal unit vector from the Bobba
\* to the target and 0.3 upwards, times BOBBA_KNOCKBACK_FORCE.
Knockback(from, to) ==
    LET dx == to[1] - from[1]
        dz == to[3] - from[3]
        len == ISqrt(Sq(dx) + Sq(dz))
    IN  IF len > 0
        THEN << (dx * BOBBA_KNOCKBACK_FORCE * 10) \div len,
                3 * BOBBA_KNOCKBACK_FORCE,
                (dz * BOBBA_KNOCKBACK_FORCE * 10) \div len >>
        ELSE << 0, 3 * BOBBA_KNOCKBACK_FORCE, 0 >>

\* A stun that always ends in a chase.
BobbaStunned_chasing(b, delta) ==
    LET t == b.stun_timer - delta
    IN  [b EXCEPT !.stun_timer = t,
                  !.state = IF t > 0 THEN @ ELSE BOBBA_CHASING]

\* The stun branch: count the stun down, leave it when it runs out.
BobbaStunned(b, delta) ==
    LET t == b.stun_timer - delta
    IN  [b EXCEPT !.stun_timer = t,
                  !.state = IF t > 0 THEN @
                            ELSE IF b.target_player_id # 0 THEN BOBBA_CHASING
                            ELSE BOBBA_ROAMING]

\* A hit that does not look where the target is.
BobbaHits_anywhere(b, ps) ==
    /\ b.has_hit_this_attack = 0
    /\ InHitWindow(b)
    /\ b.target_player_id # 0
    /\ find_player_by_id(ps, b.target_player_id) # NULL

\* Whether the attack branch hits on this tick; b already has its
\* attack_timer counted down.
BobbaHits(b, ps) ==
    /\ b.has_hit_this_attack = 0
    /\ InHitWindow(b)
    /\ b.target_player_id # 0
    /\ find_player_by_id(ps, b.target_player_id) # NULL
    /\ Within(b.pos, ps[find_player_by_id(ps, b.target_player_id)].data.pos,
              2 * BOBBA_ATTACK_DISTANCE)

\* An attack branch that does not mark the hit.
BobbaAttacking_unmarked(b, delta, ps) ==
    LET b1 == [b EXCEPT !.attack_timer = @ - delta]
    IN  [b |-> IF b1.attack_timer <= 0
               THEN [b1 EXCEPT !.state = BOBBA_CHASING] ELSE b1,
         hit |-> BobbaHits(b1, ps)]

\* The attack branch: [b, hit], hit saying whether damage is sent.
BobbaAttacking(b, delta, ps) ==
    LET b1 == [b EXCEPT !.attack_timer = @ - delta]
        hit == BobbaHits(b1, ps)
        b2 == IF hit THEN [b1 EXCEPT !.has_hit_this_attack = 1] ELSE b1
    IN  [b |-> IF b2.attack_timer <= 0
               THEN [b2 EXCEPT !.state = BOBBA_CHASING] ELSE b2,
         hit |-> hit]

\* A chaser that keeps its target however far it is.
BobbaTarget_clinging(b, ps, dir) ==
    LET t == IF b.target_player_id = 0 THEN NULL
             ELSE find_player_by_id(ps, b.target_player_id)
        gone == b.target_player_id # 0 /\ t = NULL
        b1 == IF gone THEN [b EXCEPT !.target_player_id = 0] ELSE b
        nearest == find_nearest_player(ps, b.pos)
        found == /\ b1.target_player_id = 0
                 /\ nearest # NULL
                 /\ Within(b.pos, ps[nearest].data.pos, BOBBA_DETECTION_RADIUS)
    IN  IF found
        THEN [b |-> [b1 EXCEPT !.target_player_id = ps[nearest].player_id,
                               !.state = BOBBA_CHASING],
              target |-> nearest]
        ELSE [b |-> b1, target |-> t]

\* "Find target" and "Look for new target if none": [b, target], target the
\* slot of the session the state machine then works with, or NULL.
BobbaTarget(b, ps, dir) ==
    LET t == IF b.target_player_id = 0 THEN NULL
             ELSE find_player_by_id(ps, b.target_player_id)
        lost == t # NULL /\ ~Within(b.pos, ps[t].data.pos, BOBBA_LOSE_RADIUS)
        gone == b.target_player_id # 0 /\ t = NULL
        b1 == IF lost
              THEN [b EXCEPT !.target_player_id = 0, !.state = BOBBA_ROAMING,
                             !.roam_dir = dir,
                             !.roam_timer = BOBBA_ROAM_CHANGE_TIME]
              ELSE IF gone THEN [b EXCEPT !.target_player_id = 0]
              ELSE b
        t1 == IF lost THEN NULL ELSE t
        nearest == find_nearest_player(ps, b.pos)
        found == /\ b1.target_player_id = 0
                 /\ nearest # NULL
                 /\ Within(b.pos, ps[nearest].data.pos, BOBBA_DETECTION_RADIUS)
    IN  IF found
        THEN [b |-> [b1 EXCEPT !.target_player_id = ps[nearest].player_id,
                               !.state = BOBBA_CHASING],
              target |-> nearest]
        ELSE [b |-> b1, target |-> t1]

\* The switch on bobba->state.
BobbaAct(b, target, ps, delta, dir) ==
    CASE b.state = BOBBA_ROAMING ->
           LET step == (BOBBA_ROAM_SPEED * delta) \div 1000
               b1 == [b EXCEPT !.pos = << @[1] + b.roam_dir[1] * step, @[2],
                                          @[3] + b.roam_dir[2] * step >>,
                               !.roam_timer = @ - delta]
           IN  IF b1.roam_timer <= 0
               THEN [b1 EXCEPT !.roam_dir = dir,
                               !.roam_timer = BOBBA_ROAM_CHANGE_TIME]
               ELSE b1
      [] b.state = BOBBA_CHASING ->
           IF target = NULL THEN [b EXCEPT !.state = BOBBA_ROAMING]
           ELSE IF Within(b.pos, ps[target].data.pos, BOBBA_ATTACK_DISTANCE)
           THEN [b EXCEPT !.state = BOBBA_ATTACKING,
                          !.attack_timer = BOBBA_ATTACK_DURATION,
                          !.attack_start_time = BOBBA_ATTACK_DURATION,
                          !.has_hit_this_attack = 0]
           ELSE LET flat == << ps[target].data.pos[1], b.pos[2],
                               ps[target].data.pos[3] >>
                IN  \* len > 0.1f
                    IF Sq(10) * Dist2(b.pos, flat) > Sq(UNIT)
                    THEN [b EXCEPT !.pos = StepToward(b.pos, flat,
                                               BOBBA_CHASE_SPEED, delta)]
                    ELSE b
      [] OTHER -> b

\* An AI update that does not look at the --test-multiplayer switch.
update_bobba_ai_untested(b, delta, ps, tm, dir) ==
    IF b.active = 0 THEN [b |-> b, hit |-> FALSE]
    ELSE IF b.stun_timer > 0
    THEN [b |-> BobbaStunned(b, delta), hit |-> FALSE]
    ELSE IF b.state = BOBBA_ATTACKING THEN BobbaAttacking(b, delta, ps)
    ELSE [b |-> BobbaAct(BobbaTarget(b, ps, dir).b,
                         BobbaTarget(b, ps, dir).target, ps, delta, dir),
          hit |-> FALSE]

\* update_bobba_ai: [b, hit].
update_bobba_ai(b, delta, ps, tm, dir) ==
    IF b.active = 0 THEN [b |-> b, hit |-> FALSE]
    ELSE IF tm THEN [b |-> [b EXCEPT !.state = BOBBA_IDLE], hit |-> FALSE]
    ELSE IF b.stun_timer > 0
    THEN [b |-> BobbaStunned(b, delta), hit |-> FALSE]
    ELSE IF b.state = BOBBA_ATTACKING THEN BobbaAttacking(b, delta, ps)
    ELSE [b |-> BobbaAct(BobbaTarget(b, ps, dir).b,
                         BobbaTarget(b, ps, dir).target, ps, delta, dir),
          hit |-> FALSE]

\* update_all_bobbas from slot i on: [bobbas, seq, out], threading the
\* counter and the packets sent through the slots in order.
RECURSIVE update_all_bobbas(_, _, _, _, _, _, _, _)
update_all_bobbas(i, bs, ps, seq, out, delta, tm, dir) ==
    IF i = MAX_BOBBAS THEN [bobbas |-> bs, seq |-> seq, out |-> out]
    ELSE LET r == update_bobba_ai(bs[i], delta, ps, tm, dir)
             pk == IF r.hit
                   THEN send_player_damage(ps, seq, r.b.target_player_id,
                            BOBBA_ATTACK_DAMAGE, r.b.entity_id,
                            Knockback(r.b.pos,
                                ps[find_player_by_id(ps,
                                      r.b.target_player_id)].data.pos))
                   ELSE <<>>
         IN  update_all_bobbas(i + 1, [bs EXCEPT ![i] = r.b], ps,
                               Incr(seq, Len(pk)), out \o pk, delta, tm,
                               dir)

\* The player-damage messages among `out` that name the entity.
DamageBy(out, entity_id) ==
    SelectSeq(out, LAMBDA m : /\ m.type = PKT_PLAYER_DAMAGE
                              /\ m.body.attacker_entity_id = entity_id)

\* The target of the Bobba is an active session within hitting range.
TargetInReach(b, ps) ==
    /\ b.target_player_id # 0
    /\ find_player_by_id(ps, b.target_player_id) # NULL
    /\ Within(b.pos, ps[find_player_by_id(ps, b.target_player_id)].data.pos,
              2 * BOBBA_ATTACK_DISTANCE)

\* The record of the latest attack of slot i after a step that sends `out`:
\* the player-damage messages sent since the Bobba entered BOBBA_ATTACKING,
\* and whether its target has been in reach after every step of the attack.
AttackLog(i, out) ==
    LET n == Len(DamageBy(out, bobbas'[i].entity_id))
        reach == TargetInReach(bobbas'[i], players')
    IN  IF bobbas[i].state # BOBBA_ATTACKING
        THEN IF bobbas'[i].state = BOBBA_ATTACKING
             THEN [hits |-> n, held |-> reach]
             ELSE attack[i]
        ELSE [hits |-> attack[i].hits + n, held |-> attack[i].held /\ reach]

\* What every step records about its own datagram and emissions.
Observe(in, out) ==
    /\ lastIn' = in
    /\ sent' = out
    /\ lastSeq' = NoteSeq(lastSeq, out)
    /\ issued' = issued \o AssignedIds(out)
    /\ heard' = IF in.from = NoAddr THEN heard
                ELSE [heard EXCEPT ![in.from] = now]
    /\ attack' = [i \in BobbaSlots |-> AttackLog(i, out)]
    /\ UNCHANGED fifo

\* ------------------------------------------------------------ patroller AI
\* (cos, sin, sin of the double angle) in thousandths, read at the nearest
\* eighth of a turn.
Trig(angle) ==
    LET k == ((angle * 8 + TWO_PI \div 2) \div TWO_PI) % 8
    IN  CASE k = 0 -> << 1000, 0, 0 >>
          [] k = 1 -> << 707, 707, 1000 >>
          [] k = 2 -> << 0, 1000, 0 >>
          [] k = 3 -> << -707, 707, -1000 >>
          [] k = 4 -> << -1000, 0, 0 >>
          [] k = 5 -> << -707, -707, 1000 >>
          [] k = 6 -> << 0, -1000, 0 >>
          [] OTHER -> << 707, -707, -1000 >>

get_dragon_patrol_position(d) ==
    << d.patrol_center[1] + (Trig(d.patrol_angle)[1] * DRAGON_PATROL_RADIUS) \div 1000,
       DRAGON_PATROL_HEIGHT + (Trig(d.patrol_angle)[3] * 5 * UNIT) \div 1000,
       d.patrol_center[2] + (Trig(d.patrol_angle)[2] * 7 * DRAGON_PATROL_RADIUS) \div 10000 >>

\* `if (len > 0.1f) { ... pos += d * speed * delta; }`
Steer(pos, target, speed, delta) ==
    IF Sq(10) * Dist2(pos, target) > Sq(UNIT)
    THEN StepToward(pos, target, speed, delta)
    ELSE pos

\* A patrol that goes to land without resetting its lap counter.
DragonPatrol_counting(d, delta) ==
    LET a == d.patrol_angle + delta
        lap == a >= TWO_PI
        laps == IF lap THEN d.laps_completed + 1 ELSE d.laps_completed
        land == lap /\ laps >= DRAGON_LAPS_BEFORE_LANDING
        d1 == [d EXCEPT !.patrol_angle = IF lap THEN a - TWO_PI ELSE a,
                        !.laps_completed = laps,
                        !.state = IF land THEN DRAGON_FLYING_TO_LAND ELSE @]
    IN  [d1 EXCEPT !.pos = Steer(@, get_dragon_patrol_position(d1),
                                 DRAGON_PATROL_SPEED, delta)]

DragonPatrol(d, delta) ==
    LET a == d.patrol_angle + delta
        lap == a >= TWO_PI
        laps == IF lap THEN d.laps_completed + 1 ELSE d.laps_completed
        land == lap /\ laps >= DRAGON_LAPS_BEFORE_LANDING
        d1 == [d EXCEPT !.patrol_angle = IF lap THEN a - TWO_PI ELSE a,
                        !.laps_completed = IF land THEN 0 ELSE laps,
                        !.state = IF land THEN DRAGON_FLYING_TO_LAND ELSE @]
    IN  [d1 EXCEPT !.pos = Steer(@, get_dragon_patrol_position(d1),
                                 DRAGON_PATROL_SPEED, delta)]

DragonFlyingToLand(d, delta) ==
    LET approach == << DRAGON_LANDING_SPOT[1],
                       DRAGON_LANDING_SPOT[2] + 20 * UNIT,
                       DRAGON_LANDING_SPOT[3] >>
    IN  [d EXCEPT !.pos = Steer(@, approach, DRAGON_PATROL_SPEED, delta),
                  !.state = IF Inside(d.pos, approach, 10 * UNIT)
                            THEN DRAGON_LANDING ELSE @]

DragonLanding(d, delta) ==
    LET dist == ISqrt(Dist2(d.pos, DRAGON_LANDING_SPOT))
        slow == IF dist \div 2 < DRAGON_PATROL_SPEED
                THEN dist \div 2 ELSE DRAGON_PATROL_SPEED
        speed == IF slow > 2 * UNIT THEN slow ELSE 2 * UNIT
    IN  IF Inside(d.pos, DRAGON_LANDING_SPOT, 5 * UNIT)
        THEN [d EXCEPT !.pos = DRAGON_LANDING_SPOT, !.state = DRAGON_WAIT,
                       !.wait_timer = 0]
        ELSE [d EXCEPT !.pos = Steer(@, DRAGON_LANDING_SPOT, speed, delta)]

\* A wait that looks at its timer before it looks for players.
DragonWait_leaving(d, delta, ps) ==
    LET nearest == find_nearest_player(ps, d.pos)
        d1 == [d EXCEPT !.wait_timer = @ + delta]
    IN  IF d1.wait_timer >= DRAGON_WAIT_TIME
        THEN [d1 EXCEPT !.state = DRAGON_TAKING_OFF]
        ELSE IF nearest # NULL
           /\ Inside(d.pos, ps[nearest].data.pos, DRAGON_ATTACK_RANGE)
        THEN [d1 EXCEPT !.state = DRAGON_ATTACKING,
                        !.attack_timer = DRAGON_ATTACK_TIME,
                        !.target_player_id = ps[nearest].player_id]
        ELSE d1

DragonWait(d, delta, ps) ==
    LET nearest == find_nearest_player(ps, d.pos)
        d1 == [d EXCEPT !.wait_timer = @ + delta]
    IN  IF nearest # NULL
           /\ Inside(d.pos, ps[nearest].data.pos, DRAGON_ATTACK_RANGE)
        THEN [d1 EXCEPT !.state = DRAGON_ATTACKING,
                        !.attack_timer = DRAGON_ATTACK_TIME,
                        !.target_player_id = ps[nearest].player_id]
        ELSE IF d1.wait_timer >= DRAGON_WAIT_TIME
        THEN [d1 EXCEPT !.state = DRAGON_TAKING_OFF]
        ELSE d1

\* An attack that starts over whatever has become of its target.
DragonAttacking_blind(d, delta, ps) ==
    LET d1 == [d EXCEPT !.attack_timer = @ - delta]
    IN  IF d1.attack_timer > 0 THEN d1
        ELSE [d1 EXCEPT !.attack_timer = DRAGON_ATTACK_TIME]

DragonAttacking(d, delta, ps) ==
    LET d1 == [d EXCEPT !.attack_timer = @ - delta]
        t == find_player_by_id(ps, d.target_player_id)
    IN  IF d1.attack_timer > 0 THEN d1
        ELSE IF t # NULL /\ Inside(d.pos, ps[t].data.pos, DRAGON_ATTACK_RANGE)
        THEN [d1 EXCEPT !.attack_timer = DRAGON_ATTACK_TIME]
        ELSE [d1 EXCEPT !.state = DRAGON_WAIT, !.wait_timer = 0]

DragonTakingOff(d, delta) ==
    LET y == d.pos[2] + (15 * UNIT * delta) \div 1000
    IN  IF 10 * y >= 8 * DRAGON_PATROL_HEIGHT
        THEN [d EXCEPT !.pos = << @[1], y, @[3] >>, !.state = DRAGON_PATROL,
                       !.patrol_angle = 0]
        ELSE [d EXCEPT !.pos = << @[1], y, @[3] >>]

\* The --test-multiplayer branch: patrol along the path, nothing else.
DragonTestPatrol(d, delta) ==
    LET a == d.patrol_angle + delta
        d1 == [d EXCEPT !.state = DRAGON_PATROL,
                        !.patrol_angle = IF a > TWO_PI THEN a - TWO_PI ELSE a]
    IN  [d1 EXCEPT !.pos = get_dragon_patrol_position(d1)]

update_dragon_ai(d, delta, ps, tm) ==
    IF d.active = 0 THEN d
    ELSE IF tm THEN DragonTestPatrol(d, delta)
    ELSE CASE d.state = DRAGON_PATROL -> DragonPatrol(d, delta)
           [] d.state = DRAGON_FLYING_TO_LAND -> DragonFlyingToLand(d, delta)
           [] d.state = DRAGON_LANDING -> DragonLanding(d, delta)
           [] d.state = DRAGON_WAIT -> DragonWait(d, delta, ps)
           [] d.state = DRAGON_ATTACKING -> DragonAttacking(d, delta, ps)
           [] d.state = DRAGON_TAKING_OFF -> DragonTakingOff(d, delta)
           [] OTHER -> d

update_all_dragons(ds, delta, ps, tm) ==
    [i \in DragonSlots |-> update_dragon_ai(ds[i], delta, ps, tm)]

\* ------------------------------------------------------------ entity state
BobbaEntity(b) ==
    [entity_type |-> ENTITY_BOBBA, entity_id |-> b.entity_id, pos |-> b.pos,
     state |-> b.state, health |-> b.health, extra1 |-> 0, extra2 |-> 0]

DragonEntity(d) ==
    [entity_type |-> ENTITY_DRAGON, entity_id |-> d.entity_id, pos |-> d.pos,
     state |-> d.state, health |-> d.health, extra1 |-> d.laps_completed,
     extra2 |-> d.patrol_angle]

ActiveBobbaSlots(bs) == ActiveIn(bs, MAX_BOBBAS)

ActiveDragonSlots(ds) == ActiveIn(ds, MAX_DRAGONS)

\* A list of every NPC that was ever spawned, dead or alive.
EntityRecords_spawned(bs, ds) ==
    LET ab == SelectSeq([k \in 1..MAX_BOBBAS |-> k - 1],
                        LAMBDA i : bs[i].entity_id # 0)
        ad == SelectSeq([k \in 1..MAX_DRAGONS |-> k - 1],
                        LAMBDA i : ds[i].entity_id # 0)
    IN  [k \in 1..Len(ab) |-> BobbaEntity(bs[ab[k]])]
        \o [k \in 1..Len(ad) |-> DragonEntity(ds[ad[k]])]

EntityRecords(bs, ds) ==
    LET ab == ActiveBobbaSlots(bs)
        ad == ActiveDragonSlots(ds)
    IN  [k \in 1..Len(ab) |-> BobbaEntity(bs[ab[k]])]
        \o [k \in 1..Len(ad) |-> DragonEntity(ds[ad[k]])]

\* An entity-state broadcast stamped with the counter as it stands.
broadcast_entity_state_stale(bs, ds, ps, sp, seq) ==
    LET recs == EntityRecords(bs, ds)
    IN  IF Len(recs) = 0 THEN <<>>
        ELSE << Packet(PKT_ENTITY_STATE, seq, 0,
                       [entity_count |-> Len(recs), entities |-> recs],
                       PlayerAddrs(ps) \o SpectatorAddrs(sp)) >>

\* broadcast_entity_state(), called with the counter at `seq`: the packets
\* it sends (none when no entity is active).
broadcast_entity_state(bs, ds, ps, sp, seq) ==
    LET recs == EntityRecords(bs, ds)
    IN  IF Len(recs) = 0 THEN <<>>
        ELSE << Packet(PKT_ENTITY_STATE, Incr(seq, 1), 0,
                       [entity_count |-> Len(recs), entities |-> recs],
                       PlayerAddrs(ps) \o SpectatorAddrs(sp)) >>

\* ------------------------------------------------------------ restart
\* A respawn that leaves the stun timer running.
respawn_all_bobbas_stunned(bs, dir) ==
    [i \in BobbaSlots |->
        IF bs[i].entity_id = 0 THEN bs[i]
        ELSE [bs[i] EXCEPT !.pos = BOBBA_SPAWN, !.state = BOBBA_ROAMING,
                           !.health = 100, !.active = 1,
                           !.target_player_id = 0,
                           !.has_hit_this_attack = 0,
                           !.attack_timer = 0, !.roam_dir = dir,
                           !.roam_timer = BOBBA_ROAM_CHANGE_TIME]]

respawn_all_bobbas(bs, dir) ==
    [i \in BobbaSlots |->
        IF bs[i].entity_id = 0 THEN bs[i]
        ELSE [bs[i] EXCEPT !.pos = BOBBA_SPAWN, !.state = BOBBA_ROAMING,
                           !.health = 100, !.active = 1,
                           !.target_player_id = 0,
                           !.has_hit_this_attack = 0, !.stun_timer = 0,
                           !.attack_timer = 0, !.roam_dir = dir,
                           !.roam_timer = BOBBA_ROAM_CHANGE_TIME]]

\* The draws of generate_spawn_position() for one pass over the table: one
\* position per active slot (the others draw nothing).
SpawnDraws(ps, rolls) ==
    { [i \in PlayerSlots |->
          IF ps[i].active = 1 THEN generate_spawn_position(f[i])
          ELSE <<0, 0, 0>>] :
        f \in [{ i \in PlayerSlots : ps[i].active = 1 } -> rolls] }

\* spawn[i] is the position generate_spawn_position() draws for slot i.
respawn_all_players(ps, spawn) ==
    [i \in PlayerSlots |->
        IF ps[i].active = 1
        THEN [ps[i] EXCEPT !.data.health = 100, !.data.state = STATE_IDLE,
                           !.data.pos = spawn[i]]
        ELSE ps[i]]

\* A restart that sends the world state ahead of the entity state.
handle_game_restart_swapped(bs, ds, ps, sp, seq, reason, dir, spawn) ==
    LET bs1 == respawn_all_bobbas(bs, dir)
        ps1 == respawn_all_players(ps, spawn)
        restart == Packet(PKT_GAME_RESTART, Incr(seq, 1), 0,
                          [reason |-> reason], PlayerAddrs(ps1))
    IN  [bobbas |-> bs1, players |-> ps1,
         out |-> <<restart, broadcast_world_state(ps1, sp, Incr(seq, 1))>>
                 \o broadcast_entity_state(bs1, ds, ps1, sp, Incr(seq, 2))]

\* handle_game_restart, called with the tables as given and the counter at
\* `seq`: [bobbas, players, out].
handle_game_restart(bs, ds, ps, sp, seq, reason, dir, spawn) ==
    LET bs1 == respawn_all_bobbas(bs, dir)
        ps1 == respawn_all_players(ps, spawn)
        restart == Packet(PKT_GAME_RESTART, Incr(seq, 1), 0,
                          [reason |-> reason], PlayerAddrs(ps1))
        ents == broadcast_entity_state(bs1, ds, ps1, sp, Incr(seq, 1))
    IN  [bobbas |-> bs1, players |-> ps1,
         out |-> <<restart>> \o ents
                 \o << broadcast_world_state(ps1, sp,
                                            Incr(seq, 1 + Len(ents))) >>]

\* ------------------------------------------------------------ handlers
\* A receive stage that hands over to the reaper at once.
Dispatch_to_reaper ==
    /\ pc = "recv"
    /\ pc' = "cleanup"

\* pc is the position in the body of the main loop: "recv" (recvfrom and
\* the dispatch switch), "broadcast" (the periodic world-state broadcast),
\* "entity" (the periodic AI update, due with the broadcast), "cleanup"
\* (the periodic clean-up).
Dispatch ==
    /\ pc = "recv"
    /\ pc' = "broadcast"

\* handle_join: the spectator entry of the sender, if any, is released
\* first; then the early returns; then the new session.
\* A join that leaves the spectator table alone.
ReleaseSpectator_keep(sp, addr) == sp

ReleaseSpectator(sp, addr) ==
    IF find_spectator_by_addr(sp, addr) = NULL THEN sp
    ELSE [sp EXCEPT ![find_spectator_by_addr(sp, addr)].active = 0]

\* An allocator that is not advanced.
NextPlayerId_stuck(n) == n

\* next_player_id++
NextPlayerId(n) == n + 1

\* A record left as memset left it, but for the identifier.
NewPlayerData_zero(id, spawn) == [ZeroPlayerData EXCEPT !.player_id = id]

NewPlayerData(id, spawn) ==
    [player_id |-> id, pos |-> spawn, state |-> STATE_IDLE, health |-> 100,
     active |-> 1]

NewPlayer(id, addr, t, spawn) ==
    [player_id |-> id, addr |-> addr, last_seen |-> t,
     data |-> NewPlayerData(id, spawn), active |-> 1]

handle_join(addr, cseq, roll) ==
    LET sp1 == ReleaseSpectator(spectators, addr)
        existing == find_player_by_addr(players, addr)
        slot == find_free_slot(players)
        in == Datagram(PKT_JOIN, addr, 0, cseq, TRUE, 0)
    IN  /\ Dispatch
        /\ spectators' = sp1
        /\ UNCHANGED <<npcs, test_multiplayer, now>>
        /\ IF existing # NULL
           THEN /\ players' = [players EXCEPT ![existing].last_seen = now]
                /\ UNCHANGED <<next_player_id, state_sequence>>
                /\ Observe(in, <<>>)
           ELSE IF slot = NULL
           THEN /\ UNCHANGED <<players, next_player_id, state_sequence>>
                /\ Observe(in, <<>>)
           ELSE LET p == NewPlayer(next_player_id, addr, now,
                                   generate_spawn_position(roll))
                    ps1 == [players EXCEPT ![slot] = p]
                    ack == Packet(PKT_JOIN_ACK, now, p.player_id,
                                  [assigned_id |-> p.player_id,
                                   data |-> p.data],
                                  <<addr>>)
                IN  /\ players' = ps1
                    /\ next_player_id' = NextPlayerId(next_player_id)
                    /\ state_sequence' = Incr(state_sequence, 1)
                    /\ Observe(in, <<ack,
                          broadcast_world_state(ps1, sp1, state_sequence)>>)

\* A check that lets any sender through.
AddrMatches_any(p, addr) == TRUE

\* "Verify address matches".
AddrMatches(p, addr) == SameAddr(p.addr, addr)

\* The record of the packet, stored as it came.
UpdatedData_raw(p, data) == data

\* "Update player data": the record of the packet, the identifier kept.
UpdatedData(p, data) == [data EXCEPT !.player_id = p.player_id]

handle_update(addr, id, data) ==
    LET slot == find_player_by_id(players, id)
    IN  /\ Dispatch
        /\ UNCHANGED <<spectators, npcs, next_player_id, test_multiplayer,
                       state_sequence, now>>
        /\ IF slot # NULL /\ AddrMatches(players[slot], addr)
           THEN players' = [players EXCEPT
                              ![slot].data = UpdatedData(players[slot], data),
                              ![slot].last_seen = now]
           ELSE UNCHANGED players
        /\ Observe(Datagram(PKT_UPDATE, addr, id, 0, TRUE, data), <<>>)

handle_spectate(addr, cseq) ==
    LET old == find_spectator_by_addr(spectators, addr)
        slot == find_free_spectator_slot(spectators)
        in == Datagram(PKT_SPECTATE, addr, 0, cseq, TRUE, 0)
    IN  /\ Dispatch
        /\ UNCHANGED <<players, npcs, next_player_id, test_multiplayer,
                       state_sequence, now>>
        /\ IF old # NULL
           THEN /\ spectators' = [spectators EXCEPT ![old].last_seen = now]
                /\ Observe(in, <<>>)
           ELSE IF slot = NULL
           THEN /\ UNCHANGED spectators
                /\ Observe(in, <<>>)
           ELSE /\ spectators' = [spectators EXCEPT ![slot] =
                      [addr |-> addr, last_seen |-> now, active |-> 1]]
                /\ Observe(in, << Packet(PKT_SPECTATE_ACK, cseq, 0, 0,
                                         <<addr>>) >>)

\* handle_leave: the session the header names, whoever sent the packet.
Deactivate(ps, slot) ==
    IF slot = NULL THEN ps ELSE [ps EXCEPT ![slot].active = 0]

\* A leave that is honoured only from the endpoint of the session it names.
handle_leave_bound(addr, id) ==
    LET slot == find_player_by_id(players, id)
        ps1 == IF slot # NULL /\ SameAddr(players[slot].addr, addr)
               THEN Deactivate(players, slot) ELSE players
    IN  /\ Dispatch
        /\ players' = ps1
        /\ state_sequence' = Incr(state_sequence, 1)
        /\ UNCHANGED <<spectators, npcs, next_player_id, test_multiplayer, now>>
        /\ Observe(Datagram(PKT_LEAVE, addr, id, 0, TRUE, 0),
                   << broadcast_world_state(ps1, spectators, state_sequence) >>)

handle_leave(addr, id) ==
    LET ps1 == Deactivate(players, find_player_by_id(players, id))
    IN  /\ Dispatch
        /\ players' = ps1
        /\ state_sequence' = Incr(state_sequence, 1)
        /\ UNCHANGED <<spectators, npcs, next_player_id, test_multiplayer, now>>
        /\ Observe(Datagram(PKT_LEAVE, addr, id, 0, TRUE, 0),
                   << broadcast_world_state(ps1, spectators, state_sequence) >>)

\* case PKT_PING: the header comes back as a pong.
main_ping(addr, id, cseq) ==
    /\ Dispatch
    /\ UNCHANGED <<players, spectators, npcs, next_player_id,
                   test_multiplayer, state_sequence, now>>
    /\ Observe(Datagram(PKT_PING, addr, id, cseq, TRUE, 0),
               << Packet(PKT_PONG, cseq, id, 0, <<addr>>) >>)

\* case PKT_HEARTBEAT: an empty case.
main_heartbeat(addr, id) ==
    /\ Dispatch
    /\ UNCHANGED <<players, spectators, npcs, next_player_id,
                   test_multiplayer, state_sequence, now>>
    /\ Observe(Datagram(PKT_HEARTBEAT, addr, id, 0, TRUE, 0), <<>>)

\* A relay that does not skip the sender.
OtherAddrs_all(ps, addr) == PlayerAddrs(ps)

\* The recipients of an arrow relay: every active session but the sender's.
OtherAddrs(ps, addr) ==
    SelectSeq(PlayerAddrs(ps), LAMBDA a : ~SameAddr(a, addr))

\* The buffer goes out as it came in: header and payload.
relay_arrow(type, addr, id, cseq, arrow) ==
    /\ Dispatch
    /\ UNCHANGED <<players, spectators, npcs, next_player_id,
                   test_multiplayer, state_sequence, now>>
    /\ Observe(Datagram(type, addr, id, cseq, TRUE, arrow),
               << Packet(type, cseq, id, arrow, OtherAddrs(players, addr)) >>)

relay_arrow_spawn(addr, id, cseq, arrow) ==
    relay_arrow(PKT_ARROW_SPAWN, addr, id, cseq, arrow)

relay_arrow_hit(addr, id, cseq, arrow) ==
    relay_arrow(PKT_ARROW_HIT, addr, id, cseq, arrow)

\* The Bobba slot handle_entity_damage_server stops at, or NULL.
find_bobba(bs, entity_id) ==
    LET hit == { i \in BobbaSlots :
                   bs[i].active = 1 /\ bs[i].entity_id = entity_id }
    IN  IF hit = {} THEN NULL ELSE Min(hit)

find_dragon(ds, entity_id) ==
    LET hit == { i \in DragonSlots :
                   ds[i].active = 1 /\ ds[i].entity_id = entity_id }
    IN  IF hit = {} THEN NULL ELSE Min(hit)

\* A blow that does not turn the Bobba on the attacker.
DamagedBobba_unbound(b, damage, attacker_id) ==
    [b EXCEPT !.health = @ - damage, !.stun_timer = BOBBA_STUN_TIME,
              !.state = BOBBA_STUNNED,
              !.active = IF b.health - damage <= 0 THEN 0 ELSE @]

DamagedBobba(b, damage, attacker_id) ==
    [b EXCEPT !.health = @ - damage, !.stun_timer = BOBBA_STUN_TIME,
              !.state = BOBBA_STUNNED, !.target_player_id = attacker_id,
              !.active = IF b.health - damage <= 0 THEN 0 ELSE @]

\* A blow that makes the dragon take off.
DamagedDragon_roused(d, damage) ==
    [d EXCEPT !.health = @ - damage, !.state = DRAGON_TAKING_OFF,
              !.active = IF d.health - damage <= 0 THEN 0 ELSE @]

DamagedDragon(d, damage) ==
    [d EXCEPT !.health = @ - damage,
              !.active = IF d.health - damage <= 0 THEN 0 ELSE @]

\* case PKT_ENTITY_DAMAGE: handle_entity_damage_server and, when a Bobba
\* dies of it, handle_game_restart(1, 0).
handle_entity_damage_server(addr, id, entity_id, damage, attacker_id, dirs, rolls) ==
    LET b == find_bobba(bobbas, entity_id)
        d == find_dragon(dragons, entity_id)
        in == Datagram(PKT_ENTITY_DAMAGE, addr, id, 0, TRUE,
                       [entity_id |-> entity_id, damage |-> damage,
                        attacker_id |-> attacker_id])
    IN  /\ Dispatch
        /\ UNCHANGED <<spectators, next_player_id, test_multiplayer, now>>
        /\ IF b # NULL
           THEN LET bs1 == [bobbas EXCEPT
                              ![b] = DamagedBobba(@, damage, attacker_id)]
                IN  IF bs1[b].health <= 0
                    THEN \E dir \in dirs :
                         \E spawn \in SpawnDraws(players, rolls) :
                         LET r == handle_game_restart(bs1, dragons, players,
                                     spectators, state_sequence, 1, dir, spawn)
                         IN  /\ bobbas' = r.bobbas
                             /\ players' = r.players
                             /\ state_sequence'
                                  = Incr(state_sequence, Len(r.out))
                             /\ UNCHANGED dragons
                             /\ Observe(in, r.out)
                    ELSE /\ bobbas' = bs1
                         /\ UNCHANGED <<players, dragons, state_sequence>>
                         /\ Observe(in, <<>>)
           ELSE /\ dragons' = IF d = NULL THEN dragons
                              ELSE [dragons EXCEPT ![d] = DamagedDragon(@, damage)]
                /\ UNCHANGED <<players, bobbas, state_sequence>>
                /\ Observe(in, <<>>)

\* case PKT_GAME_RESTART: handle_game_restart(restart->reason, player_id).
main_game_restart(addr, id, reason, dirs, rolls) ==
    \E dir \in dirs : \E spawn \in SpawnDraws(players, rolls) :
    LET r == handle_game_restart(bobbas, dragons, players, spectators,
                                 state_sequence, reason, dir, spawn)
    IN  /\ Dispatch
        /\ bobbas' = r.bobbas
        /\ players' = r.players
        /\ state_sequence' = Incr(state_sequence, Len(r.out))
        /\ UNCHANGED <<spectators, dragons, next_player_id, test_multiplayer,
                       now>>
        /\ Observe(Datagram(PKT_GAME_RESTART, addr, id, 0, TRUE,
                            [reason |-> reason]), r.out)

\* A datagram the switch does nothing with: shorter than the header,
\* shorter than the packet of its kind, or of a kind without a case.
main_dropped(addr, type, id) ==
    /\ Dispatch
    /\ UNCHANGED <<players, spectators, npcs, next_player_id,
                   test_multiplayer, state_sequence, now>>
    /\ Observe(Datagram(type, addr, id, 0, FALSE, 0), <<>>)

\* recvfrom returned nothing.
main_no_datagram ==
    /\ Dispatch
    /\ UNCHANGED <<players, spectators, npcs, next_player_id,
                   test_multiplayer, state_sequence, now>>
    /\ Observe(NoPacket, <<>>)

\* ------------------------------------------------------------ main loop
\* "Periodic world state broadcast", when broadcast_elapsed has reached
\* BROADCAST_INTERVAL_MS.  last_broadcast and last_entity_update are always
\* set together, so the AI update is due in the same iteration.
periodic_broadcast ==
    /\ pc = "broadcast"
    /\ pc' = "entity"
    /\ state_sequence' = Incr(state_sequence, 1)
    /\ UNCHANGED <<players, spectators, npcs, next_player_id,
                   test_multiplayer, now>>
    /\ Observe(NoPacket,
               << broadcast_world_state(players, spectators, state_sequence) >>)

\* Neither the broadcast nor the AI update is due in this iteration.
periodic_not_due ==
    /\ pc = "broadcast"
    /\ pc' = "cleanup"
    /\ UNCHANGED <<players, spectators, npcs, next_player_id,
                   test_multiplayer, state_sequence, now>>
    /\ Observe(NoPacket, <<>>)

\* An AI update that takes the damage it sends off the stored health.
periodic_entity_update_wounding(delta, dir) ==
    LET r == update_all_bobbas(0, bobbas, players, state_sequence, <<>>,
                               delta, test_multiplayer, dir)
        ds1 == update_all_dragons(dragons, delta, players, test_multiplayer)
        ents == broadcast_entity_state(r.bobbas, ds1, players, spectators,
                                       r.seq)
        hurt == { r.out[k].body.target_player_id : k \in 1..Len(r.out) }
    IN  /\ pc = "entity"
        /\ pc' = "cleanup"
        /\ bobbas' = r.bobbas
        /\ dragons' = ds1
        /\ state_sequence' = Incr(r.seq, Len(ents))
        /\ players' = [i \in PlayerSlots |->
                          IF players[i].active = 1
                             /\ players[i].player_id \in hurt
                          THEN [players[i] EXCEPT
                                  !.data.health = @ - BOBBA_ATTACK_DAMAGE]
                          ELSE players[i]]
        /\ UNCHANGED <<spectators, next_player_id, test_multiplayer, now>>
        /\ Observe(NoPacket, r.out \o ents)

\* "Periodic entity AI update" with the measured delta.
periodic_entity_update(delta, dir) ==
    LET r == update_all_bobbas(0, bobbas, players, state_sequence, <<>>,
                               delta, test_multiplayer, dir)
        ds1 == update_all_dragons(dragons, delta, players, test_multiplayer)
        ents == broadcast_entity_state(r.bobbas, ds1, players, spectators,
                                       r.seq)
    IN  /\ pc = "entity"
        /\ pc' = "cleanup"
        /\ bobbas' = r.bobbas
        /\ dragons' = ds1
        /\ state_sequence' = Incr(r.seq, Len(ents))
        /\ UNCHANGED <<players, spectators, next_player_id, test_multiplayer,
                       now>>
        /\ Observe(NoPacket, r.out \o ents)

\* A reaper that takes a session at the timeout already.
TimedOut_early(p, t) == p.active = 1 /\ (t - p.last_seen) >= PLAYER_TIMEOUT_SEC

TimedOut(p, t) == p.active = 1 /\ (t - p.last_seen) > PLAYER_TIMEOUT_SEC

cleanup_inactive_players(ps, t) ==
    [i \in PlayerSlots |->
        IF TimedOut(ps[i], t) THEN [ps[i] EXCEPT !.active = 0] ELSE ps[i]]

\* A clean-up that takes the timed-out spectators with it.
periodic_cleanup_sweeping ==
    /\ pc = "cleanup"
    /\ pc' = "recv"
    /\ players' = cleanup_inactive_players(players, now)
    /\ spectators' = [i \in SpectatorSlots |->
                        IF TimedOut(spectators[i], now)
                        THEN [spectators[i] EXCEPT !.active = 0]
                        ELSE spectators[i]]
    /\ UNCHANGED <<npcs, next_player_id, test_multiplayer, state_sequence,
                   now>>
    /\ Observe(NoPacket, <<>>)

\* "Periodic cleanup of inactive players", when cleanup_elapsed >= 1000.
periodic_cleanup ==
    /\ pc = "cleanup"
    /\ pc' = "recv"
    /\ players' = cleanup_inactive_players(players, now)
    /\ UNCHANGED <<spectators, npcs, next_player_id, test_multiplayer,
                   state_sequence, now>>
    /\ Observe(NoPacket, <<>>)

\* The clean-up is not due in this iteration.
cleanup_not_due ==
    /\ pc = "cleanup"
    /\ pc' = "recv"
    /\ UNCHANGED <<players, spectators, npcs, next_player_id,
                   test_multiplayer, state_sequence, now>>
    /\ Observe(NoPacket, <<>>)

\* The wall clock moves on while the loop sleeps.
clock_tick(d) ==
    /\ pc = "recv"
    /\ now' = now + d
    /\ UNCHANGED <<players, spectators, npcs, next_player_id,
                   test_multiplayer, state_sequence, pc>>
    /\ Observe(NoPacket, <<>>)

\* ------------------------------------------------------------ FIFO mock server
\* src/server/fifo_server.c, a process of its own: players[] with the data
\* and the connected flag of each player, the two pipes of each player as
\* queues of whole messages, the broadcast counter and the position in the
\* body of its main loop ("read", "broadcast", "sleep").  elapsed counts
\* loop iterations since last_broadcast, FifoPeriod of them making up
\* BROADCAST_INTERVAL_US.  got and wrote record, per player, the position
\* the last step stored from an update and the message the last step wrote
\* to the player's pipe.
MSG_PLAYER_UPDATE == 1
MSG_GLOBAL_STATE == 2
MSG_JOIN == 3
num_players == 2

PipeRoom == 1
FifoPeriod == 2
FifoSeqWrap == 2

FifoIds == 1..num_players
FifoPlaces == { 1, 3 }

ServerSide ==
    <<players, spectators, bobbas, dragons, next_player_id, test_multiplayer,
      state_sequence, now, pc, sent, lastIn, lastSeq, issued, heard, attack>>

FifoMessage(msg_type, sequence, recs) ==
    [msg_type |-> msg_type, player_count |-> Len(recs),
     sequence |-> sequence, players |-> recs]

FifoRecord(id, x) == [player_id |-> id, x |-> x, active |-> 1]

\* create_player_fifos: the players start spread apart and not connected.
create_player_fifos(id) ==
    [id |-> id, connected |-> FALSE,
     data |-> [player_id |-> id, x |-> 2 * id, active |-> 0]]

FifoInit ==
    [players |-> [p \in FifoIds |-> create_player_fifos(p)],
     to_server |-> [p \in FifoIds |-> <<>>],
     from_server |-> [p \in FifoIds |-> <<>>],
     sequence |-> 0, elapsed |-> 0, pc |-> "read",
     got |-> [p \in FifoIds |-> <<>>],
     wrote |-> [p \in FifoIds |-> <<>>]]

Quiet == [p \in FifoIds |-> <<>>]

\* connection_handler of player p: both pipes are open, the player counts
\* as connected.
connection_handler(p) ==
    /\ ~fifo.players[p].connected
    /\ fifo' = [fifo EXCEPT !.players[p].connected = TRUE,
                            !.players[p].data.active = 1,
                            !.got = Quiet, !.wrote = Quiet]
    /\ UNCHANGED ServerSide

\* The records of message m that carry the identifier of player p.
OwnRecords(p, m) == SelectSeq(m.players, LAMBDA r : r.player_id = p)

Updates(p, m) == m.msg_type = MSG_PLAYER_UPDATE /\ OwnRecords(p, m) # <<>>

\* A server that reads the update and keeps the data it had.
StoredData_kept(p, d, m) == d

\* The data of player p after message m was read from its pipe: the first
\* record of an update that names p, with the active flag set.
StoredData(p, d, m) ==
    IF Updates(p, m) THEN [Head(OwnRecords(p, m)) EXCEPT !.active = 1]
    ELSE d

Readable(p) == fifo.players[p].connected /\ fifo.to_server[p] # <<>>

\* read_player_updates: one whole message from the pipe of every connected
\* player that has one.
read_player_updates ==
    /\ fifo.pc = "read"
    /\ fifo' =
         [fifo EXCEPT
            !.players = [p \in FifoIds |->
                IF Readable(p)
                THEN [@[p] EXCEPT !.data =
                         StoredData(p, @, Head(fifo.to_server[p]))]
                ELSE @[p]],
            !.to_server = [p \in FifoIds |->
                IF Readable(p) THEN Tail(@[p]) ELSE @[p]],
            !.got = [p \in FifoIds |->
                IF Readable(p) /\ Updates(p, Head(fifo.to_server[p]))
                THEN << Head(OwnRecords(p, Head(fifo.to_server[p]))).x >>
                ELSE <<>>],
            !.wrote = Quiet,
            !.pc = "broadcast"]
    /\ UNCHANGED ServerSide

\* The message broadcast_global_state builds: the data of the connected
\* players in slot order, under the next sequence number.
GlobalState(f) ==
    LET on == SelectSeq([k \in 1..num_players |-> k],
                        LAMBDA p : f.players[p].connected)
    IN  FifoMessage(MSG_GLOBAL_STATE, (f.sequence + 1) % FifoSeqWrap,
                    [k \in 1..Len(on) |-> f.players[on[k]].data])

\* The non-blocking write to the pipe of p goes through when the pipe has
\* room for the message and fails with EAGAIN otherwise.
Writable(p) ==
    fifo.players[p].connected /\ Len(fifo.from_server[p]) < PipeRoom

\* broadcast_global_state, when BROADCAST_INTERVAL_US has passed.
broadcast_global_state ==
    /\ fifo.pc = "broadcast"
    /\ fifo.elapsed >= FifoPeriod
    /\ fifo' =
         [fifo EXCEPT
            !.sequence = (@ + 1) % FifoSeqWrap,
            !.from_server = [p \in FifoIds |->
                IF Writable(p) THEN Append(@[p], GlobalState(fifo))
                ELSE @[p]],
            !.wrote = [p \in FifoIds |->
                IF Writable(p) THEN << GlobalState(fifo) >> ELSE <<>>],
            !.got = Quiet,
            !.elapsed = 0,
            !.pc = "sleep"]
    /\ UNCHANGED ServerSide

\* The broadcast is not due in this iteration.
fifo_not_due ==
    /\ fifo.pc = "broadcast"
    /\ fifo.elapsed < FifoPeriod
    /\ fifo' = [fifo EXCEPT !.pc = "sleep", !.got = Quiet, !.wrote = Quiet]
    /\ UNCHANGED ServerSide

\* usleep(100) at the end of the iteration.
fifo_sleep ==
    /\ fifo.pc = "sleep"
    /\ fifo' = [fifo EXCEPT
                  !.elapsed = IF @ < FifoPeriod THEN @ + 1 ELSE @,
                  !.pc = "read", !.got = Quiet, !.wrote = Quiet]
    /\ UNCHANGED ServerSide

\* The client of player p writes a whole message to its pipe, and reads
\* one from the other.
client_write(p, m) ==
    /\ fifo.players[p].connected
    /\ Len(fifo.to_server[p]) < PipeRoom
    /\ fifo' = [fifo EXCEPT !.to_server[p] = Append(@, m),
                            !.got = Quiet, !.wrote = Quiet]
    /\ UNCHANGED ServerSide

client_read(p) ==
    /\ fifo.from_server[p] # <<>>
    /\ fifo' = [fifo EXCEPT !.from_server[p] = Tail(@),
                            !.got = Quiet, !.wrote = Quiet]
    /\ UNCHANGED ServerSide

\* What a client writes: an update with its own record at one of two
\* places, an update with the record of another player only, and a message
\* of another kind with its own record.
ClientMessages(p) ==
    { FifoMessage(MSG_PLAYER_UPDATE, 0, << FifoRecord(p, x) >>) :
        x \in FifoPlaces } \cup
    { FifoMessage(MSG_PLAYER_UPDATE, 0,
                  << FifoRecord((p % num_players) + 1, 1) >>),
      FifoMessage(MSG_JOIN, 0, << FifoRecord(p, 1) >>) }

\* The mock server, its connection threads and the clients; the client of
\* player 1 is the one that writes.
FifoWriters == { 1 }

\* One iteration of "while (running)", stage by stage.
FifoLoop ==
    \/ read_player_updates
    \/ broadcast_global_state
    \/ fifo_not_due
    \/ fifo_sleep

NextFifo ==
    \/ \E p \in FifoIds : connection_handler(p)
    \/ read_player_updates
    \/ broadcast_global_state
    \/ fifo_not_due
    \/ fifo_sleep
    \/ \E p \in FifoWriters : \E m \in ClientMessages(p) : client_write(p, m)
    \/ \E p \in FifoIds : client_read(p)

\* ------------------------------------------------------------ start-up
spawn_bobba(pos, id, dir) ==
    [ZeroBobba EXCEPT !.entity_id = id, !.pos = pos,
                      !.state = BOBBA_ROAMING, !.health = 100, !.active = 1,
                      !.roam_dir = dir, !.roam_timer = BOBBA_ROAM_CHANGE_TIME]

spawn_dragon(center, id) ==
    [ZeroDragon EXCEPT !.entity_id = id, !.patrol_center = center,
                       !.pos = << center[1] + DRAGON_PATROL_RADIUS,
                                  DRAGON_PATROL_HEIGHT, center[2] >>,
                       !.state = DRAGON_PATROL, !.health = 500, !.active = 1]

\* main() up to the loop, with the switch set as given and the first roam
\* direction drawn from dirs.
InitWith(tm, dirs) ==
    /\ players = [i \in PlayerSlots |-> ZeroPlayer]
    /\ spectators = [i \in SpectatorSlots |-> ZeroSpectator]
    /\ \E dir \in dirs :
          bobbas = [i \in BobbaSlots |->
                      IF i = 0 THEN spawn_bobba(BOBBA_SPAWN, 1, dir)
                      ELSE ZeroBobba]
    /\ dragons = [i \in DragonSlots |-> spawn_dragon(<<0, 10 * UNIT>>, 2)]
    /\ next_player_id = 1
    /\ test_multiplayer = tm
    /\ state_sequence = 0
    /\ now = 0
    /\ pc = "recv"
    /\ sent = <<>>
    /\ lastIn = NoPacket
    /\ lastSeq = [k \in MsgKinds |-> -1]
    /\ issued = <<>>
    /\ heard = [a \in Endpoints \cup Crowd \cup {Late} |-> NULL]
    /\ attack = [i \in BobbaSlots |-> [hits |-> 0, held |-> FALSE]]
    /\ fifo = FifoInit

Init == InitWith(FALSE, {<<1, 0>>})

\* ------------------------------------------------------------ inputs
NEAR_BOBBA == << 6 * UNIT + UNIT \div 2, 0, 5 * UNIT >>
MID_RANGE == << 20 * UNIT, 0, 5 * UNIT >>

\* The record a client puts in its update packets: an identifier that is
\* not its own, and the active flag down.
MovedAway ==
    [player_id |-> 0, pos |-> MID_RANGE, state |-> STATE_ATTACKING,
     health |-> 60, active |-> 0]

\* The endpoints that ask to spectate.
Watchers == { NumEndpoints }

\* The counters of the bounded model stay within their bounds.
Bounded ==
    /\ state_sequence' <= MaxSeq
    /\ next_player_id' <= MaxId + 1
    /\ now' <= MaxTime

\* The broadcast is taken when the counter has room for its sequence number
\* and for that of the entity-state broadcast of the same iteration.
BroadcastDue ==
    /\ state_sequence + 2 <= MaxSeq
    /\ periodic_broadcast

\* The session specification: every packet kind that reaches the session
\* and spectator tables, the periodic work of the loop, and a clock that
\* jumps past the timeout.
Receive ==
    \/ \E a \in Endpoints : handle_join(a, 0, 1) /\ Bounded
    \/ \E a \in Endpoints, i \in ClaimedIds : handle_update(a, i, MovedAway)
    \/ \E a \in Endpoints, i \in ClaimedIds : handle_leave(a, i) /\ Bounded
    \/ \E a \in Watchers : handle_spectate(a, 0)
    \/ main_game_restart(1, 0, 2, {<<1, 0>>}, {1}) /\ Bounded
    \/ main_no_datagram

Periodic ==
    \/ BroadcastDue
    \/ periodic_not_due
    \/ periodic_entity_update(50, <<1, 0>>) /\ Bounded
    \/ periodic_cleanup
    \/ cleanup_not_due
    \/ clock_tick(PLAYER_TIMEOUT_SEC + 1) /\ Bounded

Next == Receive \/ Periodic

Spec == Init /\ [][Next]_vars

\* The reaper specification: the clock advances second by second; one
\* endpoint joins and is silent from then on.  The join is received early
\* enough for the bounded clock to pass its timeout.
Silent == 1

JoinsAfresh(a) ==
    /\ find_player_by_addr(players, a) = NULL
    /\ now + PLAYER_TIMEOUT_SEC + 1 <= MaxTime
    /\ handle_join(a, 0, 1)
    /\ Bounded

PeriodicReap ==
    \/ BroadcastDue
    \/ periodic_not_due
    \/ periodic_entity_update(50, <<1, 0>>) /\ Bounded
    \/ periodic_cleanup
    \/ cleanup_not_due
    \/ clock_tick(1) /\ Bounded

NextReap ==
    \/ JoinsAfresh(Silent)
    \/ main_no_datagram
    \/ PeriodicReap

\* The loop keeps running (a recvfrom that has nothing returns, a timer
\* that is not due is passed, an AI update that is due is carried out), the
\* wall clock keeps advancing and the clean-up is due once a second.
SpecReap ==
    /\ Init
    /\ [][NextReap]_vars
    /\ WF_vars(main_no_datagram)
    /\ WF_vars(periodic_not_due)
    /\ []<>(pc # "entity")
    /\ SF_vars(clock_tick(1) /\ Bounded)
    /\ SF_vars(periodic_cleanup)

\* The keep-alive specification: the other endpoints join and keep sending
\* packets that name their own session.
Talkers == Endpoints \ {Silent}

OwnId(a) ==
    IF find_player_by_addr(players, a) = NULL THEN 0
    ELSE players[find_player_by_addr(players, a)].player_id

NextBeat ==
    \/ \E a \in Talkers : JoinsAfresh(a)
    \/ \E a \in Talkers : main_heartbeat(a, OwnId(a))
    \/ \E a \in Talkers : main_ping(a, OwnId(a), 0)
    \/ \E a \in Talkers : handle_update(a, OwnId(a), MovedAway)
    \/ main_no_datagram
    \/ periodic_not_due
    \/ periodic_cleanup
    \/ cleanup_not_due
    \/ clock_tick(1) /\ Bounded

SpecBeat == Init /\ [][NextBeat]_vars

\* The sequence specification: endpoint 1 joins, stands next to the Bobba
\* and asks for restarts; the last endpoint spectates and pings; the AI
\* update comes every half second.
SeqRun == 2 * MaxSeq + 1

NextToBobba ==
    [player_id |-> 0, pos |-> NEAR_BOBBA, state |-> STATE_WALKING,
     health |-> 30, active |-> 1]

ReceiveSeq ==
    \/ handle_join(Silent, 0, 1) /\ state_sequence' <= SeqRun
    \/ handle_update(Silent, OwnId(Silent), NextToBobba)
    \/ /\ main_game_restart(Silent, OwnId(Silent), 2, {<<1, 0>>}, {1})
       /\ state_sequence' <= SeqRun
    \/ \E a \in Watchers, c \in ClientSeqs : handle_spectate(a, c)
    \/ \E a \in Watchers, c \in ClientSeqs : main_ping(a, 0, c)
    \/ main_no_datagram

PeriodicSeq ==
    \/ state_sequence + 3 <= SeqRun /\ periodic_broadcast
    \/ periodic_not_due
    \/ periodic_entity_update(500, <<1, 0>>)
    \/ cleanup_not_due
    \/ clock_tick(PLAYER_TIMEOUT_SEC + 1) /\ Bounded

NextSeq == ReceiveSeq \/ PeriodicSeq

SpecSeq == Init /\ [][NextSeq]_vars

\* The full-house specification: the endpoints of the crowd join one after
\* the other until every player slot is taken, then spectate one after the
\* other until every spectator slot is taken; the late endpoint spectates
\* when it likes and joins when the player table is full.
count_active_spectators(sp) ==
    Cardinality({ i \in SpectatorSlots : sp[i].active = 1 })

NextFull ==
    \/ \E a \in Crowd :
          /\ a = count_active_players(players) + 1
          /\ handle_join(a, 0, 1)
    \/ /\ count_active_players(players) = MAX_PLAYERS
       /\ handle_join(Late, 0, 1)
    \/ \E a \in Crowd :
          /\ count_active_players(players) = MAX_PLAYERS
          /\ find_spectator_by_addr(spectators, Late) = NULL
          /\ a = count_active_spectators(spectators) + 1
          /\ handle_spectate(a, 0)
    \/ handle_spectate(Late, 0)
    \/ main_no_datagram
    \/ periodic_not_due
    \/ cleanup_not_due

SpecFull == Init /\ [][NextFull]_vars

\* The combat specification: endpoint 1 joins once, moves between a place
\* next to the Bobba, a place at the edge of its reach and a place out of
\* its sight, strikes the Bobba and leaves; the AI update comes with a
\* measured delta of half a second or, after a stall, of 1.6 s.
FightRun == 2 * MaxSeq + 2

GRAZE == << 8 * UNIT, 0, 5 * UNIT >>

FightPlaces == { NEAR_BOBBA, GRAZE, MID_RANGE }

Moved(pos) ==
    [player_id |-> 0, pos |-> pos, state |-> STATE_WALKING, health |-> 30,
     active |-> 1]

FightDeltas == { 500, 1600 }

FightBounded == state_sequence' <= FightRun

JoinsOnce(a) ==
    /\ issued = <<>>
    /\ handle_join(a, 0, 1)
    /\ FightBounded

LeavesOwn(a) ==
    /\ OwnId(a) # 0
    /\ handle_leave(a, OwnId(a))
    /\ FightBounded

\* An entity-damage packet of the endpoint, naming its own session as the
\* attacker.
Strikes(a, entity_id, damage) ==
    /\ handle_entity_damage_server(a, OwnId(a), entity_id, damage, OwnId(a),
                                   {<<1, 0>>}, {1})
    /\ FightBounded

NextFight ==
    \/ JoinsOnce(Silent)
    \/ \E p \in FightPlaces :
          handle_update(Silent, OwnId(Silent), Moved(p))
    \/ Strikes(Silent, 1, 60)
    \/ LeavesOwn(Silent)
    \/ main_no_datagram
    \/ state_sequence + 3 <= FightRun /\ periodic_broadcast
    \/ periodic_not_due
    \/ \E d \in FightDeltas : periodic_entity_update(d, <<1, 0>>)
    \/ cleanup_not_due

SpecFight == Init /\ [][NextFight]_vars

\* The restart specification: as above with the AI update every half
\* second; the endpoint also strikes the dragon dead and asks for restarts
\* (two blows kill the Bobba, one kills the dragon).
Blows == { <<1, 60>>, <<2, 500>> }

NextRestart ==
    \/ JoinsOnce(Silent)
    \/ \E p \in FightPlaces :
          handle_update(Silent, OwnId(Silent), Moved(p))
    \/ \E w \in Blows : Strikes(Silent, w[1], w[2])
    \/ /\ main_game_restart(Silent, OwnId(Silent), 2, {<<1, 0>>}, {1})
       /\ FightBounded
    \/ LeavesOwn(Silent)
    \/ main_no_datagram
    \/ state_sequence + 3 <= FightRun /\ periodic_broadcast
    \/ periodic_not_due
    \/ periodic_entity_update(500, <<1, 0>>)
    \/ cleanup_not_due

SpecRestart == Init /\ [][NextRestart]_vars

\* The arrow specification: one endpoint more than in the session
\* specification; the endpoints join and leave, the last one spectates, and
\* all of them shoot: arrow packets of the exact size and with trailing
\* bytes, and arrow packets cut short.
Archers == 1..(NumEndpoints + 1)

\* The payload of an arrow packet: the arrow and the bytes that follow the
\* packet in the datagram.
Arrows == { [arrow_id |-> 1, trailing |-> 0], [arrow_id |-> 2, trailing |-> 4] }

ArrowKinds == { PKT_ARROW_SPAWN, PKT_ARROW_HIT }

NextArrow ==
    \/ \E a \in Archers : handle_join(a, 0, 1) /\ Bounded
    \/ \E a \in Archers :
          OwnId(a) # 0 /\ handle_leave(a, OwnId(a)) /\ Bounded
    \/ handle_spectate(NumEndpoints + 1, 0)
    \/ \E a \in Archers, c \in ClientSeqs, w \in Arrows :
          relay_arrow_spawn(a, OwnId(a), c, w)
    \/ \E a \in Archers, c \in ClientSeqs, w \in Arrows :
          relay_arrow_hit(a, OwnId(a), c, w)
    \/ \E a \in Archers, t \in ArrowKinds : main_dropped(a, t, OwnId(a))
    \/ main_no_datagram
    \/ periodic_not_due
    \/ cleanup_not_due

SpecArrow == Init /\ [][NextArrow]_vars

\* ------------------------------------------------------------ sessions
ActiveSessions == { i \in PlayerSlots : players[i].active = 1 }

\* C1: no two active sessions of the player table are bound to the same
\* endpoint, so there are as many active sessions as endpoints holding one.
C1_OneSessionPerEndpoint ==
    /\ \A i, j \in ActiveSessions :
          i # j => ~SameAddr(players[i].addr, players[j].addr)
    /\ count_active_players(players)
         = Cardinality({ players[i].addr : i \in ActiveSessions })

\* Two sessions are active and a join from the endpoint of one of them has
\* just been received: it created nothing.
C1_Witness ==
    /\ lastIn.type = PKT_JOIN
    /\ sent = <<>>
    /\ Cardinality(ActiveSessions) = 2
    /\ \E i \in ActiveSessions : SameAddr(players[i].addr, lastIn.from)

\* C2: the identifiers assigned by accepted joins are non-zero, start at 1
\* and strictly increase in the order of the joins (so none is assigned
\* twice, whatever became of its session and of its slot); every active
\* session holds one of them, and no two active sessions hold the same.
C2_IdsNeverReused ==
    /\ \A k \in 1..Len(issued) : issued[k] # 0
    /\ Len(issued) > 0 => issued[1] = 1
    /\ \A k \in 1..(Len(issued) - 1) : issued[k] < issued[k + 1]
    /\ \A i \in ActiveSessions :
          \E k \in 1..Len(issued) : issued[k] = players[i].player_id
    /\ \A i, j \in ActiveSessions :
          i # j => players[i].player_id # players[j].player_id

\* The slot freed by the first session is taken by the third join, next to
\* the second session, which is still active.
C2_Witness ==
    /\ Len(issued) = 3
    /\ players[0].active = 1
    /\ players[0].player_id = 3
    /\ players[1].active = 1
    /\ players[1].player_id = 2

\* C3: the identifier inside the player-state record of every active
\* session is the identifier assigned to the session.
C3_RecordIdIsSessionId ==
    \A i \in ActiveSessions : players[i].data.player_id = players[i].player_id

\* An update whose record names another identifier has just been stored.
C3_Witness ==
    /\ lastIn.type = PKT_UPDATE
    /\ \E i \in ActiveSessions :
          /\ players[i].player_id = lastIn.player_id
          /\ SameAddr(players[i].addr, lastIn.from)
          /\ players[i].data.pos = lastIn.body.pos
          /\ lastIn.body.player_id # players[i].player_id

\* The step dispatches a datagram of the given kind.
Dispatches(type) == pc = "recv" /\ pc' = "broadcast" /\ lastIn'.type = type

ActiveSpectators == { i \in SpectatorSlots : spectators[i].active = 1 }

\* C4: an update whose header names an identifier that no active session
\* bound to the sender holds changes no session, no spectator, no NPC and no
\* counter, and nothing is sent.
C4_SpoofedUpdateIgnored ==
    [][ ( /\ Dispatches(PKT_UPDATE)
          /\ \A i \in ActiveSessions :
                players[i].player_id = lastIn'.player_id
                   => ~SameAddr(players[i].addr, lastIn'.from) )
        => /\ players' = players
           /\ spectators' = spectators
           /\ bobbas' = bobbas
           /\ dragons' = dragons
           /\ next_player_id' = next_player_id
           /\ state_sequence' = state_sequence
           /\ sent' = <<>> ]_vars

\* An update naming the session of another endpoint has just been
\* dispatched.
C4_Witness ==
    /\ lastIn.type = PKT_UPDATE
    /\ \E i \in ActiveSessions :
          /\ players[i].player_id = lastIn.player_id
          /\ ~SameAddr(players[i].addr, lastIn.from)
          /\ players[i].data.pos # lastIn.body.pos

\* C5: a world-state snapshot carries the record of every active session
\* once, in as many records as there are active sessions and nothing else,
\* and goes to every active session and every active spectator.
C5_WorldStateIsTheActiveSessions ==
    \A k \in 1..Len(sent) :
        sent[k].type = PKT_WORLD_STATE =>
            LET recs == sent[k].body.players
                to == { sent[k].to[n] : n \in 1..Len(sent[k].to) }
            IN  /\ sent[k].body.player_count = Cardinality(ActiveSessions)
                /\ Len(recs) = Cardinality(ActiveSessions)
                /\ \A i \in ActiveSessions :
                      Cardinality({ r \in 1..Len(recs) :
                          recs[r].player_id = players[i].player_id }) = 1
                /\ \A r \in 1..Len(recs) :
                      \E i \in ActiveSessions : recs[r] = players[i].data
                /\ \A i \in ActiveSessions : players[i].addr \in to
                /\ \A i \in ActiveSpectators : spectators[i].addr \in to

\* A snapshot with one record has gone to the one session and to a
\* spectator that holds no session, while a deactivated session is still in
\* the table.
C5_Witness ==
    /\ \E k \in 1..Len(sent) :
          /\ sent[k].type = PKT_WORLD_STATE
          /\ sent[k].body.player_count = 1
          /\ Len(sent[k].to) = 2
    /\ \E i \in PlayerSlots : players[i].active = 0 /\ players[i].player_id # 0
    /\ \E i \in ActiveSpectators :
          \A j \in ActiveSessions :
              ~SameAddr(players[j].addr, spectators[i].addr)

\* C9: a join from an endpoint without an active session, with a slot free,
\* activates one slot and leaves the others alone; the new session has
\* health 100, state idle, the record flag up and the next identifier (1
\* for the first join of the run); a join-ack with that identifier and that
\* record goes to the sender only, and a world-state snapshot holding the
\* record follows it.
C9_AcceptedJoin ==
    [][ ( /\ Dispatches(PKT_JOIN)
          /\ \A i \in ActiveSessions :
                ~SameAddr(players[i].addr, lastIn'.from)
          /\ \E i \in PlayerSlots : players[i].active = 0 )
        => \E s \in PlayerSlots :
             /\ players[s].active = 0
             /\ players'[s].active = 1
             /\ \A j \in PlayerSlots \ {s} : players'[j] = players[j]
             /\ SameAddr(players'[s].addr, lastIn'.from)
             /\ players'[s].player_id = next_player_id
             /\ issued = <<>> => players'[s].player_id = 1
             /\ players'[s].data.player_id = players'[s].player_id
             /\ players'[s].data.health = 100
             /\ players'[s].data.state = STATE_IDLE
             /\ players'[s].data.active = 1
             /\ Len(sent') = 2
             /\ sent'[1].type = PKT_JOIN_ACK
             /\ sent'[1].to = << lastIn'.from >>
             /\ sent'[1].body.assigned_id = players'[s].player_id
             /\ sent'[1].body.data = players'[s].data
             /\ sent'[2].type = PKT_WORLD_STATE
             /\ \E r \in 1..Len(sent'[2].body.players) :
                   sent'[2].body.players[r] = players'[s].data ]_vars

\* The first join of the run has just been accepted.
C9_Witness ==
    /\ lastIn.type = PKT_JOIN
    /\ issued = <<1>>
    /\ Len(sent) = 2
    /\ sent[1].type = PKT_JOIN_ACK
    /\ sent[1].to = << lastIn.from >>

\* ------------------------------------------------------------ the reaper
\* The step is the periodic clean-up (due or not).
ReaperStep == pc = "cleanup" /\ pc' = "recv"

Age(p) == now - p.last_seen

SilentSession == { i \in ActiveSessions : SameAddr(players[i].addr, Silent) }

\* C6: the session of an endpoint that stays silent after its join is
\* eventually deactivated; the clean-up step deactivates no session of age
\* PLAYER_TIMEOUT_SEC or less, a clean-up pass that is due deactivates every
\* older one, and neither sends anything; the snapshots carry the
\* identifiers of active sessions only.
C6_SilentSessionReaped ==
    /\ (SilentSession # {}) ~> (SilentSession = {})
    /\ [][ ReaperStep =>
             /\ \A i \in ActiveSessions :
                   Age(players[i]) <= PLAYER_TIMEOUT_SEC
                      => players'[i].active = 1
             /\ periodic_cleanup =>
                   \A i \in ActiveSessions :
                      Age(players[i]) > PLAYER_TIMEOUT_SEC
                         => players'[i].active = 0
             /\ sent' = <<>>
             /\ state_sequence' = state_sequence ]_vars
    /\ [](\A k \in 1..Len(sent) :
             sent[k].type = PKT_WORLD_STATE =>
                \A r \in 1..Len(sent[k].body.players) :
                   \E i \in ActiveSessions :
                      players[i].player_id = sent[k].body.players[r].player_id)

\* The silent session has been reaped at age PLAYER_TIMEOUT_SEC + 1 and a
\* snapshot has gone out since.
C6_Witness ==
    /\ \E i \in PlayerSlots :
          /\ players[i].active = 0
          /\ SameAddr(players[i].addr, Silent)
          /\ now - players[i].last_seen = PLAYER_TIMEOUT_SEC + 1
    /\ \E k \in 1..Len(sent) : sent[k].type = PKT_WORLD_STATE

\* The kinds of packet an endpoint with a session sends while it plays.
KeepAliveKinds ==
    {PKT_HEARTBEAT, PKT_PING, PKT_ARROW_SPAWN, PKT_ARROW_HIT,
     PKT_ENTITY_DAMAGE, PKT_GAME_RESTART, PKT_UPDATE}

\* C7: a packet of any of these kinds from the endpoint of an active
\* session, naming that session, sets the session's last-seen timestamp to
\* the time of its dispatch; and the clean-up leaves alone every session
\* whose endpoint had a packet dispatched in the last PLAYER_TIMEOUT_SEC
\* seconds.
C7_AnyPacketRefreshes ==
    [][ /\ \A i \in ActiveSessions :
             ( /\ pc = "recv"
               /\ pc' = "broadcast"
               /\ lastIn'.type \in KeepAliveKinds
               /\ SameAddr(players[i].addr, lastIn'.from)
               /\ players[i].player_id = lastIn'.player_id )
             => players'[i].last_seen = now
        /\ ReaperStep =>
             \A i \in ActiveSessions :
                ( /\ heard[players[i].addr] # NULL
                  /\ now - heard[players[i].addr] <= PLAYER_TIMEOUT_SEC )
                => players'[i].active = 1 ]_vars

\* ------------------------------------------------------------ sequence
\* The kinds stamped with ++state_sequence.
CounterKinds ==
    {PKT_WORLD_STATE, PKT_ENTITY_STATE, PKT_PLAYER_DAMAGE, PKT_GAME_RESTART}

\* The messages of the given kinds among the first k the step sends.
Stamped(kinds, k) == { j \in 1..k : sent'[j].type \in kinds }

\* Every message of the given kinds carries the next value of the
\* counter, which is above the last one sent of its kind.
FromCounter(kinds) ==
    /\ \A k \in 1..Len(sent') :
          sent'[k].type \in kinds =>
             /\ sent'[k].sequence
                  = state_sequence + Cardinality(Stamped(kinds, k))
             /\ sent'[k].sequence > lastSeq[sent'[k].type]
             /\ \A j \in 1..(k - 1) :
                   sent'[j].type = sent'[k].type
                      => sent'[j].sequence < sent'[k].sequence
    /\ state_sequence'
         = state_sequence + Cardinality(Stamped(kinds, Len(sent')))

\* C8 as stated: every kind of message the server originates carries the
\* next value of the one outbound counter, strictly above the last
\* message of its kind.
C8_EveryKindFromCounter == [][FromCounter(MsgKinds)]_vars

\* C8, amended: world-state, entity-state, player-damage and game-restart
\* messages carry the next value of the one outbound counter, strictly
\* above the last message of their kind; a join-ack carries the time of
\* the join, a pong and a spectate-ack the sequence number of the request.
C8_CounterKindsFromCounter ==
    [][ /\ FromCounter(CounterKinds)
        /\ \A k \in 1..Len(sent') :
              /\ sent'[k].type = PKT_JOIN_ACK => sent'[k].sequence = now
              /\ sent'[k].type \in {PKT_PONG, PKT_SPECTATE_ACK}
                    => sent'[k].sequence = lastIn'.sequence ]_vars

\* Every kind has been sent, the player-damage message last.
C8_Witness ==
    /\ \A k \in MsgKinds : lastSeq[k] # -1
    /\ \E k \in 1..Len(sent) : sent[k].type = PKT_PLAYER_DAMAGE

\* ------------------------------------------------------------ full tables
\* C10: a join dispatched while every player slot is active, and a spectate
\* dispatched while every spectator slot is active, sends nothing and
\* leaves the player table, the spectator table and the allocator as they
\* were.
C10_FullRequestsDropped ==
    [][ ( \/ /\ Dispatches(PKT_JOIN)
             /\ \A i \in PlayerSlots : players[i].active = 1
          \/ /\ Dispatches(PKT_SPECTATE)
             /\ \A i \in SpectatorSlots : spectators[i].active = 1 )
        => /\ sent' = <<>>
           /\ players' = players
           /\ spectators' = spectators
           /\ next_player_id' = next_player_id ]_vars

\* ------------------------------------------------------------ promotion
\* The recipients of the k-th message of the step that are the endpoint a.
CopiesTo(k, a) == { n \in 1..Len(sent'[k].to) : SameAddr(sent'[k].to[n], a) }

\* C11: an accepted join from an endpoint that is an active spectator
\* leaves the endpoint with an active session and without an active
\* spectator entry; the entry is released before the session is announced,
\* so the snapshot of the same step reaches the endpoint once, as a player;
\* the other spectator entries are left alone.
C11_PromotionReleasesSpectator ==
    [][ ( /\ Dispatches(PKT_JOIN)
          /\ find_spectator_by_addr(spectators, lastIn'.from) # NULL
          /\ find_player_by_addr(players, lastIn'.from) = NULL
          /\ find_free_slot(players) # NULL )
        => /\ find_player_by_addr(players', lastIn'.from) # NULL
           /\ find_spectator_by_addr(spectators', lastIn'.from) = NULL
           /\ \A i \in SpectatorSlots :
                 ~SameAddr(spectators[i].addr, lastIn'.from)
                    => spectators'[i] = spectators[i]
           /\ \A k \in 1..Len(sent') :
                 sent'[k].type = PKT_WORLD_STATE
                    => Cardinality(CopiesTo(k, lastIn'.from)) = 1 ]_vars

\* A join of the spectating endpoint has just been accepted: its spectator
\* entry is still in the table, released.
C11_Witness ==
    /\ lastIn.type = PKT_JOIN
    /\ Len(sent) = 2
    /\ find_player_by_addr(players, lastIn.from) # NULL
    /\ \E i \in SpectatorSlots :
          /\ spectators[i].active = 0
          /\ SameAddr(spectators[i].addr, lastIn.from)

\* ------------------------------------------------------------ combat
\* The attack progress 1 - attack_timer / attack_start_time, in percent of
\* the attack, lies between lo and hi.
ProgressBetween(b, lo, hi) ==
    /\ 100 * (b.attack_start_time - b.attack_timer) >= lo * b.attack_start_time
    /\ 100 * (b.attack_start_time - b.attack_timer) <= hi * b.attack_start_time

\* C12: a Bobba enters BOBBA_ATTACKING with its hit flag clear; while it
\* stays in that state the flag, once set, is not cleared; a step sends a
\* player-damage message in the name of a Bobba only while setting its
\* flag, and then only one; so between entering the state and leaving it
\* the Bobba sends at most one player-damage message, whatever the tick
\* deltas and the packets in between.
C12_HitFlagOncePerAttack ==
    /\ [][ \A i \in BobbaSlots :
             /\ ( /\ bobbas[i].state # BOBBA_ATTACKING
                  /\ bobbas'[i].state = BOBBA_ATTACKING )
                => bobbas'[i].has_hit_this_attack = 0
             /\ ( /\ bobbas[i].state = BOBBA_ATTACKING
                  /\ bobbas'[i].state = BOBBA_ATTACKING
                  /\ bobbas[i].has_hit_this_attack = 1 )
                => bobbas'[i].has_hit_this_attack = 1
             /\ ( bobbas[i].entity_id # 0
                  /\ DamageBy(sent', bobbas[i].entity_id) # <<>> )
                => /\ Len(DamageBy(sent', bobbas[i].entity_id)) = 1
                   /\ bobbas[i].state = BOBBA_ATTACKING
                   /\ bobbas[i].has_hit_this_attack = 0
                   /\ bobbas'[i].has_hit_this_attack = 1 ]_vars
    /\ [](\A i \in BobbaSlots : attack[i].hits <= 1)

\* A tick has just found the Bobba inside the hit window with its target
\* in reach and the flag already set: it sent no second message.
C12_Witness ==
    /\ pc = "cleanup"
    /\ bobbas[0].state = BOBBA_ATTACKING
    /\ bobbas[0].has_hit_this_attack = 1
    /\ ProgressBetween(bobbas[0], 30, 70)
    /\ TargetInReach(bobbas[0], players)
    /\ attack[0].hits = 1
    /\ sent # <<>>
    /\ DamageBy(sent, bobbas[0].entity_id) = <<>>

\* C13: when the attack timer of a Bobba runs out and the Bobba returns to
\* chasing, and its target has been an active session within twice the
\* attack distance all through the attack, exactly one player-damage
\* message has been sent in the attack.
C13_ExactlyOneHitPerAttack ==
    [][ \A i \in BobbaSlots :
          ( /\ bobbas[i].state = BOBBA_ATTACKING
            /\ bobbas'[i].state = BOBBA_CHASING
            /\ attack'[i].held )
          => attack'[i].hits = 1 ]_vars

\* C14: every player-damage message comes from an active Bobba in
\* BOBBA_ATTACKING whose attack progress lies in [0.30, 0.70]; it goes to
\* one endpoint, that of the Bobba's target, which is an active session
\* within twice the attack distance; it carries damage 70, the identifier
\* of the target and the entity identifier of the Bobba.
C14_DamageOnlyInWindowToTarget ==
    \A k \in 1..Len(sent) :
        sent[k].type = PKT_PLAYER_DAMAGE =>
            \E i \in BobbaSlots :
                LET b == bobbas[i]
                    t == find_player_by_id(players, b.target_player_id)
                IN  /\ b.active = 1
                    /\ b.state = BOBBA_ATTACKING
                    /\ ProgressBetween(b, 30, 70)
                    /\ sent[k].body.attacker_entity_id = b.entity_id
                    /\ sent[k].body.target_player_id = b.target_player_id
                    /\ sent[k].body.damage = 70
                    /\ b.target_player_id # 0
                    /\ t # NULL
                    /\ players[t].active = 1
                    /\ Dist2(b.pos, players[t].data.pos)
                          <= Sq(2 * BOBBA_ATTACK_DISTANCE)
                    /\ sent[k].to = << players[t].addr >>

\* A player-damage message has just gone to a target that stands beyond
\* the attack distance, within twice of it.
C14_Witness ==
    /\ \E k \in 1..Len(sent) : sent[k].type = PKT_PLAYER_DAMAGE
    /\ TargetInReach(bobbas[0], players)
    /\ ~Within(bobbas[0].pos,
               players[find_player_by_id(players,
                           bobbas[0].target_player_id)].data.pos,
               BOBBA_ATTACK_DISTANCE)

\* The step sends a message of the given kind.
Sends(type) == \E k \in 1..Len(sent') : sent'[k].type = type

\* C15: an AI tick, and any step that sends a player-damage message,
\* leaves the player table as it was; the stored health of a session
\* changes only in a step that dispatches a join, an update of that session
\* from its own endpoint, or that carries out a restart, and it goes down
\* only by such an update.
C15_ServerNeverLowersHealth ==
    [][ /\ (pc = "entity" \/ Sends(PKT_PLAYER_DAMAGE)) => players' = players
        /\ \A i \in PlayerSlots :
              /\ players'[i].data.health # players[i].data.health
                 => \/ Dispatches(PKT_JOIN) /\ players[i].active = 0
                    \/ /\ Dispatches(PKT_UPDATE)
                       /\ players[i].active = 1
                       /\ lastIn'.player_id = players[i].player_id
                       /\ SameAddr(lastIn'.from, players[i].addr)
                    \/ Sends(PKT_GAME_RESTART)
              /\ players'[i].data.health < players[i].data.health
                 => Dispatches(PKT_UPDATE) ]_vars

\* A player-damage message has just been sent to a session whose stored
\* health is still the 30 points of its last update.
C15_Witness ==
    \E k \in 1..Len(sent) :
        /\ sent[k].type = PKT_PLAYER_DAMAGE
        /\ \E i \in ActiveSessions :
              /\ players[i].player_id = sent[k].body.target_player_id
              /\ players[i].data.health = 30

\* ------------------------------------------------------------ NPC damage
\* The step dispatches an entity-damage packet that names the active Bobba
\* of slot i (the dragon of slot i).
StrikesBobba(i) ==
    /\ Dispatches(PKT_ENTITY_DAMAGE)
    /\ lastIn'.full
    /\ bobbas[i].active = 1
    /\ bobbas[i].entity_id = lastIn'.body.entity_id

StrikesDragon(i) ==
    /\ Dispatches(PKT_ENTITY_DAMAGE)
    /\ lastIn'.full
    /\ \A j \in BobbaSlots : ~StrikesBobba(j)
    /\ dragons[i].active = 1
    /\ dragons[i].entity_id = lastIn'.body.entity_id

\* C16: an entity-damage packet that names an active Bobba and leaves its
\* health positive takes the damage off its health, puts it in
\* BOBBA_STUNNED with a stun timer of 0.5 s, clears its hit flag and makes
\* the attacker of the packet its target, whatever its state was.
C16_DamageStunsAndClearsFlag ==
    [][ \A i \in BobbaSlots :
          ( StrikesBobba(i) /\ bobbas[i].health - lastIn'.body.damage > 0 )
          => /\ bobbas'[i].health = bobbas[i].health - lastIn'.body.damage
             /\ bobbas'[i].state = BOBBA_STUNNED
             /\ bobbas'[i].stun_timer = 500
             /\ bobbas'[i].has_hit_this_attack = 0
             /\ bobbas'[i].target_player_id = lastIn'.body.attacker_id ]_vars

\* C16, amended: an entity-damage packet that names an active Bobba and
\* leaves its health positive takes the damage off its health, puts it in
\* BOBBA_STUNNED with a stun timer of 0.5 s and makes the attacker of the
\* packet its target, whatever its state was; it changes nothing else of
\* the Bobba: the hit flag stays as it was, set if the interrupted attack
\* had hit.
C16_DamageStunsAndBinds ==
    [][ \A i \in BobbaSlots :
          ( StrikesBobba(i) /\ bobbas[i].health - lastIn'.body.damage > 0 )
          => bobbas'[i] =
                [bobbas[i] EXCEPT
                    !.health = @ - lastIn'.body.damage,
                    !.state = BOBBA_STUNNED,
                    !.stun_timer = 500,
                    !.target_player_id = lastIn'.body.attacker_id] ]_vars

\* A blow has just interrupted an attack that had hit: the Bobba is
\* stunned, turned on the attacker, its hit flag still set.
C16_Witness ==
    /\ lastIn.type = PKT_ENTITY_DAMAGE
    /\ bobbas[0].state = BOBBA_STUNNED
    /\ bobbas[0].stun_timer = 500
    /\ bobbas[0].health = 40
    /\ bobbas[0].has_hit_this_attack = 1
    /\ bobbas[0].attack_timer > 0
    /\ bobbas[0].target_player_id = lastIn.body.attacker_id
    /\ bobbas[0].target_player_id # 0

\* C17: an entity-damage packet that brings the health of an active Bobba
\* or of an active dragon to zero or below deactivates the entity and sets
\* off, in the same step, a restart with reason 1: the game-restart message
\* is the first message of the step (the restart respawns a Bobba at once,
\* a dragon stays inactive).
C17_NpcDeathRestarts ==
    [][ /\ \A i \in BobbaSlots :
              ( StrikesBobba(i) /\ bobbas[i].health - lastIn'.body.damage <= 0 )
              => /\ sent' # <<>>
                 /\ sent'[1].type = PKT_GAME_RESTART
                 /\ sent'[1].body.reason = 1
        /\ \A i \in DragonSlots :
              ( StrikesDragon(i) /\ dragons[i].health - lastIn'.body.damage <= 0 )
              => /\ dragons'[i].active = 0
                 /\ sent' # <<>>
                 /\ sent'[1].type = PKT_GAME_RESTART
                 /\ sent'[1].body.reason = 1 ]_vars

\* ------------------------------------------------------------ restart
\* The last step carried out a restart.
Restarted == sent # <<>> /\ sent[1].type = PKT_GAME_RESTART

\* The Bobba slots main() filled, with the identifier and the position it
\* gave them.
Spawned == { 0 }

\* C18: right after a restart, whether set off by the death of a Bobba or
\* by a game-restart packet, every Bobba that was spawned is active with
\* the identifier and at the position of its spawn, with health 100, in
\* BOBBA_ROAMING, without a target, its hit flag clear and its stun and
\* attack timers at zero, the slots never used are still unused, and every
\* active session has health 100 and state idle.
C18_RestartResetsWorld ==
    Restarted =>
       /\ \A i \in Spawned :
             /\ bobbas[i].active = 1
             /\ bobbas[i].entity_id = i + 1
             /\ bobbas[i].pos = << 5 * UNIT, 0, 5 * UNIT >>
             /\ bobbas[i].health = 100
             /\ bobbas[i].state = BOBBA_ROAMING
             /\ bobbas[i].target_player_id = 0
             /\ bobbas[i].has_hit_this_attack = 0
             /\ bobbas[i].stun_timer = 0
             /\ bobbas[i].attack_timer = 0
       /\ \A i \in BobbaSlots \ Spawned : bobbas[i] = ZeroBobba
       /\ \A i \in ActiveSessions :
             /\ players[i].data.health = 100
             /\ players[i].data.state = STATE_IDLE

\* The second blow has just killed the Bobba, with a session in the game:
\* the restart of reason 1 was carried out in the same step.
C18_Witness ==
    /\ Restarted
    /\ lastIn.type = PKT_ENTITY_DAMAGE
    /\ sent[1].body.reason = 1
    /\ ActiveSessions # {}

\* C19: a restart sends three messages and no other: a game-restart with
\* the reason of the restart (that of the packet, 1 for a dead Bobba) to
\* every active session, once each; then an entity-state snapshot with a
\* record of health 100 for every spawned Bobba; then a world-state
\* snapshot with a record of health 100 for every active session; stamped
\* with three consecutive values of the counter.
C19_RestartEmitsInOrder ==
    (\E k \in 1..Len(sent) : sent[k].type = PKT_GAME_RESTART) =>
       /\ Len(sent) = 3
       /\ sent[1].type = PKT_GAME_RESTART
       /\ sent[1].body.reason
            = IF lastIn.type = PKT_GAME_RESTART THEN lastIn.body.reason ELSE 1
       /\ \A i \in ActiveSessions :
             Cardinality({ n \in 1..Len(sent[1].to) :
                             SameAddr(sent[1].to[n], players[i].addr) }) = 1
       /\ Len(sent[1].to) = Cardinality(ActiveSessions)
       /\ sent[2].type = PKT_ENTITY_STATE
       /\ \A i \in Spawned :
             \E r \in 1..Len(sent[2].body.entities) :
                LET e == sent[2].body.entities[r]
                IN  /\ e.entity_type = ENTITY_BOBBA
                    /\ e.entity_id = bobbas[i].entity_id
                    /\ e.health = 100
       /\ sent[3].type = PKT_WORLD_STATE
       /\ Len(sent[3].body.players) = Cardinality(ActiveSessions)
       /\ \A r \in 1..Len(sent[3].body.players) :
             sent[3].body.players[r].health = 100
       /\ sent[2].sequence = sent[1].sequence + 1
       /\ sent[3].sequence = sent[2].sequence + 1
       /\ state_sequence = sent[3].sequence

\* A game-restart packet has just been answered, with a session in the
\* game.
C19_Witness ==
    /\ lastIn.type = PKT_GAME_RESTART
    /\ Len(sent) = 3
    /\ Len(sent[1].to) = 1
    /\ sent[1].body.reason = 2

\* ------------------------------------------------------------ arrows
\* The sendto() calls of the step that go to the endpoint a.
SentTo(a) ==
    { <<k, n>> \in (1..Len(sent')) \X (1..MAX_PLAYERS) :
         n <= Len(sent'[k].to) /\ SameAddr(sent'[k].to[n], a) }

\* C20: an arrow-spawn or arrow-hit packet of sufficient length goes out
\* again as it came (kind, header fields, payload and trailing bytes) once
\* to every active session bound to another endpoint than the sender's,
\* and to no other endpoint: not to the sender, not to a spectator; one
\* that is too short goes nowhere; in both cases the tables, the NPCs and
\* the counters are left as they were.
C20_ArrowRelayedToTheOthers ==
    [][ ( \E t \in ArrowKinds : Dispatches(t) )
        => /\ lastIn'.full =>
                /\ \A k \in 1..Len(sent') :
                      /\ sent'[k].type = lastIn'.type
                      /\ sent'[k].sequence = lastIn'.sequence
                      /\ sent'[k].player_id = lastIn'.player_id
                      /\ sent'[k].body = lastIn'.body
                /\ \A i \in ActiveSessions :
                      Cardinality(SentTo(players[i].addr))
                        = IF SameAddr(players[i].addr, lastIn'.from)
                          THEN 0 ELSE 1
                /\ Cardinality(SentTo(lastIn'.from)) = 0
                /\ \A k \in 1..Len(sent') : \A n \in 1..Len(sent'[k].to) :
                      \E i \in ActiveSessions :
                         SameAddr(players[i].addr, sent'[k].to[n])
           /\ ~lastIn'.full => sent' = <<>>
           /\ players' = players
           /\ spectators' = spectators
           /\ bobbas' = bobbas
           /\ dragons' = dragons
           /\ next_player_id' = next_player_id
           /\ state_sequence' = state_sequence ]_vars

\* An arrow packet with trailing bytes from an endpoint holding a session
\* has just gone to the two other sessions, while a spectator is watching.
C20_Witness ==
    /\ lastIn.type = PKT_ARROW_SPAWN
    /\ lastIn.full
    /\ lastIn.body.trailing = 4
    /\ find_player_by_addr(players, lastIn.from) # NULL
    /\ Len(sent) = 1
    /\ Len(sent[1].to) = 2
    /\ sent[1].body = lastIn.body
    /\ ActiveSpectators # {}

\* ------------------------------------------------------------ entity damage relay
\* relay_entity_damage: the host is the active session with the lowest
\* player_id; the received buffer goes to it as it came, and to nobody when
\* no session is active.
relay_entity_damage(ps, in) ==
    LET ids == { ps[i].player_id : i \in { j \in PlayerSlots : ps[j].active = 1 } }
    IN  IF ids = {} THEN <<>>
        ELSE << Packet(in.type, in.sequence, in.player_id, in.body,
                       << ps[find_player_by_id(ps, Min(ids))].addr >>) >>

\* C21: every entity-damage packet received goes out again, as it came, to
\* exactly one recipient, the active session with the smallest identifier
\* at that moment, and to nobody when no session is active.
C21_EntityDamageRelayedToHost ==
    [][ Dispatches(PKT_ENTITY_DAMAGE) /\ lastIn'.full
        => SelectSeq(sent', LAMBDA m : m.type = PKT_ENTITY_DAMAGE)
             = relay_entity_damage(players, lastIn') ]_vars

\* ------------------------------------------------------------ dispatch
\* A switch that asks for the header only, whatever the kind.
sizeof_packet_header(type) == sizeof_PacketHeader

\* sizeof of the struct the case of the kind casts the buffer to; the cases
\* without a length test read the header only.
sizeof_packet(type) ==
    CASE type = PKT_JOIN -> sizeof_PacketHeader + 32
      [] type = PKT_UPDATE -> sizeof_PacketHeader + sizeof_PlayerData
      [] type = PKT_ENTITY_DAMAGE -> sizeof_PacketHeader + 4 + 4 + 4
      [] type = PKT_ARROW_SPAWN -> sizeof_PacketHeader + 4 + 12 + 12 + 4
      [] type = PKT_ARROW_HIT -> sizeof_PacketHeader + 4 + 12 + 4
      [] type = PKT_GAME_RESTART -> sizeof_PacketHeader + 4
      [] OTHER -> sizeof_PacketHeader

\* The body of "if (recv_len > 0)": the header test, then the switch on the
\* kind with the length test of each case.
Covers(type, recv_len) ==
    /\ recv_len >= sizeof_PacketHeader
    /\ recv_len >= sizeof_packet(type)

main_recv(addr, type, id, cseq, recv_len, body) ==
    IF ~Covers(type, recv_len)
    THEN main_dropped(addr, type, id)
    ELSE CASE type = PKT_JOIN -> handle_join(addr, cseq, 1)
           [] type = PKT_UPDATE -> handle_update(addr, id, body)
           [] type = PKT_LEAVE -> handle_leave(addr, id)
           [] type = PKT_PING -> main_ping(addr, id, cseq)
           [] type = PKT_ENTITY_DAMAGE ->
                handle_entity_damage_server(addr, id, body.entity_id,
                    body.damage, body.attacker_id, {<<1, 0>>}, {1})
           [] type = PKT_ARROW_SPAWN -> relay_arrow_spawn(addr, id, cseq, body)
           [] type = PKT_ARROW_HIT -> relay_arrow_hit(addr, id, cseq, body)
           [] type = PKT_HEARTBEAT -> main_heartbeat(addr, id)
           [] type = PKT_SPECTATE -> handle_spectate(addr, cseq)
           [] type = PKT_GAME_RESTART ->
                main_game_restart(addr, id, body.reason, {<<1, 0>>}, {1})
           [] OTHER -> main_dropped(addr, type, id)

\* The dispatch specification: one endpoint sends datagrams of every kind the switch knows and
\* of one it does not know, each at the length of its struct, one byte
\* short of it, with the header alone and one byte short of the header.
PKT_UNKNOWN == 200

Payload(type) ==
    CASE type = PKT_UPDATE -> Moved(GRAZE)
      [] type = PKT_ENTITY_DAMAGE ->
           [entity_id |-> 1, damage |-> 60, attacker_id |-> 0]
      [] type \in ArrowKinds -> [arrow_id |-> 1, trailing |-> 0]
      [] type = PKT_GAME_RESTART -> [reason |-> 2]
      [] OTHER -> 0

WireKinds ==
    { PKT_JOIN, PKT_UPDATE, PKT_LEAVE, PKT_PING, PKT_ENTITY_DAMAGE,
      PKT_ARROW_SPAWN, PKT_ARROW_HIT, PKT_HEARTBEAT, PKT_SPECTATE,
      PKT_GAME_RESTART, PKT_UNKNOWN }

Wire ==
    { [type |-> t, recv_len |-> n, body |-> Payload(t)] :
        t \in WireKinds,
        n \in { sizeof_PacketHeader - 1, sizeof_PacketHeader } } \cup
    { [type |-> t, recv_len |-> sizeof_packet(t) - d, body |-> Payload(t)] :
        t \in WireKinds, d \in { 0, 1 } }

Receives(a, w) ==
    /\ main_recv(a, w.type, OwnId(a), 0, w.recv_len, w.body)
    /\ Bounded

NextDrop ==
    \/ \E w \in Wire : Receives(Silent, w)
    \/ main_no_datagram
    \/ periodic_not_due
    \/ cleanup_not_due

SpecDrop == Init /\ [][NextDrop]_vars

\* The kinds whose case tests recv_len, with the length each asks for.
FullLength ==
    [t \in { PKT_JOIN, PKT_UPDATE, PKT_ENTITY_DAMAGE, PKT_ARROW_SPAWN,
             PKT_ARROW_HIT, PKT_GAME_RESTART } |->
        CASE t = PKT_JOIN -> 41
          [] t = PKT_UPDATE -> 69
          [] t = PKT_ENTITY_DAMAGE -> 21
          [] t = PKT_ARROW_SPAWN -> 41
          [] t = PKT_ARROW_HIT -> 29
          [] t = PKT_GAME_RESTART -> 13]

KnownKinds == WireKinds \ { PKT_UNKNOWN }

\* The datagrams that are to be dropped.
TooShortOrUnknown(w) ==
    \/ w.recv_len < 9
    \/ w.type \notin KnownKinds
    \/ w.type \in DOMAIN FullLength /\ w.recv_len < FullLength[w.type]

\* C22: a datagram shorter than the 9-byte header, a datagram of unknown
\* kind, and a join, update, entity-damage, arrow-spawn, arrow-hit or
\* game-restart datagram shorter than the packet of its kind is dropped:
\* the step that receives it changes no table, no NPC and no counter and
\* sends nothing.  (The step is the reception of w by a; the two conjuncts
\* ahead of it follow from it and keep the comparison to datagrams of the
\* same shape.)
C22_ShortOrUnknownDropped ==
    [][ \A a \in { Silent }, w \in Wire :
          /\ TooShortOrUnknown(w)
          /\ lastIn'.type = w.type
          /\ lastIn'.full = (w.type \in KnownKinds /\ Covers(w.type, w.recv_len))
          /\ Receives(a, w)
          => /\ sent' = <<>>
             /\ players' = players
             /\ spectators' = spectators
             /\ bobbas' = bobbas
             /\ dragons' = dragons
             /\ next_player_id' = next_player_id
             /\ state_sequence' = state_sequence
             /\ now' = now ]_vars

\* A join one byte short of the join packet has just been dropped while
\* the sender holds no session, and no identifier has been issued for it.
C22_Witness ==
    /\ lastIn.type = PKT_JOIN
    /\ ~lastIn.full
    /\ lastIn.from \in Endpoints
    /\ find_player_by_addr(players, lastIn.from) = NULL
    /\ sent = <<>>
    /\ pc = "broadcast"

\* ------------------------------------------------------------ order of an iteration
\* C23: in one iteration of the loop the datagram received is dispatched
\* first; the world-state broadcast, when due, comes next and carries the
\* tables as the dispatch left them; the AI update and the entity-state
\* broadcast follow and carry the NPCs as that update left them; the reaper
\* runs last, so no session is reaped between the dispatch and the
\* snapshots of its iteration.
C23_DispatchThenSnapshotsThenReaper ==
    [][ /\ pc = "recv" /\ lastIn'.from # NoAddr => pc' = "broadcast"
        /\ pc = "recv" => pc' \in { "recv", "broadcast" }
        /\ pc = "broadcast" =>
              /\ pc' \in { "entity", "cleanup" }
              /\ players' = players
              /\ pc' = "entity" =>
                    /\ Len(sent') = 1
                    /\ sent'[1].type = PKT_WORLD_STATE
                    /\ sent'[1].body.players = WorldStateRecords(players)
                    /\ sent'[1].to = PlayerAddrs(players) \o SpectatorAddrs(spectators)
              /\ pc' = "cleanup" => sent' = <<>>
        /\ pc = "entity" =>
              /\ pc' = "cleanup"
              /\ players' = players
              /\ \A k \in 1..Len(sent') :
                    sent'[k].type = PKT_ENTITY_STATE =>
                       /\ k = Len(sent')
                       /\ sent'[k].body.entities = EntityRecords(bobbas', dragons')
        /\ pc = "cleanup" => pc' = "recv"
        /\ (\E i \in PlayerSlots :
               /\ players[i].active = 1
               /\ players'[i].active = 0
               /\ lastIn'.from = NoAddr)
           => pc = "cleanup" ]_vars

\* The snapshot that follows the dispatch of an update carries the position
\* of that update: the loop is past its broadcast, the world state it sent
\* holds a record at the place the update named, and the AI update of the
\* iteration is still to come.
C23_Witness ==
    /\ pc = "entity"
    /\ Len(sent) = 1
    /\ sent[1].type = PKT_WORLD_STATE
    /\ \E r \in 1..Len(sent[1].body.players) :
          /\ sent[1].body.players[r].pos = MID_RANGE
          /\ sent[1].body.players[r].state = STATE_ATTACKING

\* ------------------------------------------------------------ world-state length
\* C24: the length in bytes of every world-state message sent is
\* 9 + 4 + 1 + 60 x count, count being the number of player records it
\* carries: 74 bytes with one active player.
C24_WorldStateLength ==
    \A k \in 1..Len(sent) :
        sent[k].type = PKT_WORLD_STATE =>
            /\ sent[k].body.player_count = Len(sent[k].body.players)
            /\ sent[k].body.len = 9 + 4 + 1 + 60 * sent[k].body.player_count

\* ------------------------------------------------------------ multiplayer test
\* The server started with --test-multiplayer, receiving what the restart
\* specification receives.
InitTest == InitWith(TRUE, {<<1, 0>>})

SpecTest == InitTest /\ [][NextRestart]_vars

\* The step is an AI update.
AiTick == pc = "entity" /\ pc' = "cleanup"

\* C25: with the multiplayer-test switch on, after every AI tick every
\* active chaser is idle and every active patroller is in patrol, no
\* chaser is at another place after an AI tick than before it, and no step
\* of the run emits a player-damage message.
C25_TestModeFreezesNpcs ==
    [][ test_multiplayer =>
          /\ \A k \in 1..Len(sent') : sent'[k].type # PKT_PLAYER_DAMAGE
          /\ AiTick =>
                /\ \A i \in BobbaSlots :
                      /\ bobbas'[i].active = 1 => bobbas'[i].state = BOBBA_IDLE
                      /\ bobbas'[i].pos = bobbas[i].pos
                /\ \A i \in DragonSlots :
                      dragons'[i].active = 1 => dragons'[i].state = DRAGON_PATROL
      ]_vars

\* An AI tick has just left the chaser idle where it was although it has
\* been struck and a session stands within its attack distance.
C25_Witness ==
    /\ test_multiplayer
    /\ pc = "cleanup"
    /\ Len(sent) = 1
    /\ sent[1].type = PKT_ENTITY_STATE
    /\ bobbas[0].active = 1
    /\ bobbas[0].state = BOBBA_IDLE
    /\ bobbas[0].health < 100
    /\ \E i \in ActiveSessions :
          Inside(bobbas[0].pos, players[i].data.pos, BOBBA_ATTACK_DISTANCE)

\* ------------------------------------------------------------ leave
\* C26: a leave whose header names the identifier of an active session but
\* which comes from another endpoint than the one that session is bound to
\* does not deactivate the session.
C26_LeaveOnlyFromOwnEndpoint ==
    [][ Dispatches(PKT_LEAVE)
        => \A i \in ActiveSessions :
              ~SameAddr(players[i].addr, lastIn'.from)
              => players'[i].active = 1 ]_vars

\* C26, as the code has it: a leave deactivates the active session its
\* header names, whatever endpoint it comes from, and touches no other
\* slot and no field of that slot but the active flag; the record of a
\* session is rewritten only by an update from the session's own endpoint.
C26_LeaveDeactivatesNamedSession ==
    [][ /\ Dispatches(PKT_LEAVE)
           => \A i \in PlayerSlots :
                 players'[i] =
                    IF i = find_player_by_id(players, lastIn'.player_id)
                    THEN [players[i] EXCEPT !.active = 0]
                    ELSE players[i]
        /\ Dispatches(PKT_UPDATE)
           => \A i \in PlayerSlots :
                 players'[i].data # players[i].data
                 => /\ players[i].active = 1
                    /\ SameAddr(players[i].addr, lastIn'.from) ]_vars

\* The one session of the run, joined from one endpoint, has just been
\* deactivated by a leave that came from another endpoint.
C26_Witness ==
    /\ lastIn.type = PKT_LEAVE
    /\ Len(issued) = 1
    /\ state_sequence = 2
    /\ \E i \in PlayerSlots :
          /\ players[i].player_id = lastIn.player_id
          /\ players[i].player_id = issued[1]
          /\ players[i].active = 0
          /\ ~SameAddr(players[i].addr, lastIn.from)

\* ------------------------------------------------------------ FIFO echo
\* The mock server runs its loop for ever and every client keeps reading
\* its pipe; nothing is assumed of what the clients write.
SpecFifo ==
    /\ Init
    /\ [][NextFifo]_vars
    /\ WF_vars(FifoLoop)
    /\ \A p \in FifoIds : WF_vars(client_read(p))

\* The message the last step wrote to the pipe of p carries the record of
\* p at the position x.
Echoed(p, x) ==
    /\ fifo.wrote[p] # <<>>
    /\ \E k \in 1..Len(fifo.wrote[p][1].players) :
          /\ fifo.wrote[p][1].players[k].player_id = p
          /\ fifo.wrote[p][1].players[k].x = x

\* Every broadcast written carries, for each connected player, the position
\* of the last update read from that player.
EchoIsLatest ==
    \A p \in FifoIds : \A q \in FifoIds :
        fifo.wrote[p] # <<>> /\ fifo.players[q].connected
        => \E k \in 1..Len(fifo.wrote[p][1].players) :
              fifo.wrote[p][1].players[k] = fifo.players[q].data

\* C27: once the mock server has read from the pipe of connected player p
\* a whole update with a record of p, a global-state broadcast carrying the
\* record of p at exactly that position is eventually written to the pipe
\* of p, and every broadcast until the next update of p carries that
\* position.
C27_EveryUpdateEchoed ==
    /\ \A p \in FifoIds : \A x \in FifoPlaces :
          (fifo.got[p] = << x >>) ~> Echoed(p, x)
    /\ []EchoIsLatest

\* C27, as the code has it: the update is echoed unless an update of p with
\* another position is read before the broadcast is written, the server
\* keeping the latest position only; every broadcast written carries the
\* position of the latest update read.
C27_LatestUpdateEchoed ==
    /\ \A p \in FifoIds : \A x \in FifoPlaces :
          (fifo.got[p] = << x >>)
             ~> (Echoed(p, x) \/ (fifo.got[p] # <<>> /\ fifo.got[p] # << x >>))
    /\ []EchoIsLatest

\* A broadcast has just been written to the pipe of player 1 with player 1
\* at a place it named in an update, to both players.
C27_Witness ==
    /\ Echoed(1, 3)
    /\ fifo.wrote[2] # <<>>
    /\ fifo.players[1].data.x = 3

\* ------------------------------------------------------------ chase
\* The chase specification: two endpoints join once each, move between a
\* place within the attack distance of the Bobba's spawn position, a place
\* within its detection radius and a place beyond its lose radius, and
\* leave; the AI update comes every half second.
FAR_OFF == << 30 * UNIT, 0, 5 * UNIT >>

ChasePlaces == { NEAR_BOBBA, GRAZE, FAR_OFF }

ChaseRun == 2 * MaxSeq + 2

ChaseBounded == state_sequence' <= ChaseRun

NextChase ==
    \/ \E a \in Endpoints :
          heard[a] = NULL /\ handle_join(a, 0, 1) /\ ChaseBounded
    \/ \E a \in Endpoints, p \in ChasePlaces :
          OwnId(a) # 0 /\ handle_update(a, OwnId(a), Moved(p))
    \/ \E a \in Endpoints :
          OwnId(a) # 0 /\ handle_leave(a, OwnId(a)) /\ ChaseBounded
    \/ main_no_datagram
    \/ state_sequence + 3 <= ChaseRun /\ periodic_broadcast
    \/ periodic_not_due
    \/ periodic_entity_update(500, <<1, 0>>)
    \/ cleanup_not_due

SpecChase == Init /\ [][NextChase]_vars

\* The Bobba of slot i is roaming, unbound and not stunned, and an active
\* session is within its detection radius.
RoamingInSight(i) ==
    /\ bobbas[i].active = 1
    /\ bobbas[i].state = BOBBA_ROAMING
    /\ bobbas[i].target_player_id = 0
    /\ bobbas[i].stun_timer <= 0
    /\ \E j \in ActiveSessions :
          Within(bobbas[i].pos, players[j].data.pos, BOBBA_DETECTION_RADIUS)

\* After the step the Bobba of slot i is bound to an active session that no
\* active session is closer than.
BoundToNearest(i) ==
    \E j \in ActiveSessions :
       /\ bobbas'[i].target_player_id = players[j].player_id
       /\ \A k \in ActiveSessions :
             Dist2(bobbas[i].pos, players[j].data.pos)
               <= Dist2(bobbas[i].pos, players[k].data.pos)

\* C28: on an AI tick outside the multiplayer test, a roaming chaser with
\* no bound target that has an active player within its detection radius
\* of 10 binds the nearest active player and is chasing after the tick.
C28_RoamingBindsAndChases ==
    [][ AiTick /\ ~test_multiplayer
        => \A i \in BobbaSlots :
              RoamingInSight(i)
              => /\ BoundToNearest(i)
                 /\ bobbas'[i].state = BOBBA_CHASING ]_vars

\* C28, as the code has it: the chaser binds the nearest active player, and
\* the chasing case runs in the same tick: with that player farther than
\* the attack distance of 2 the chaser is chasing after the tick, with the
\* player within it the chaser is attacking already (timer 1.5 s, hit flag
\* clear) and has not moved.
C28_RoamingBindsThenActs ==
    [][ AiTick /\ ~test_multiplayer
        => \A i \in BobbaSlots :
              RoamingInSight(i)
              => /\ BoundToNearest(i)
                 /\ \A j \in ActiveSessions :
                       bobbas'[i].target_player_id = players[j].player_id
                       => IF Within(bobbas[i].pos, players[j].data.pos,
                                    BOBBA_ATTACK_DISTANCE)
                          THEN /\ bobbas'[i].state = BOBBA_ATTACKING
                               /\ bobbas'[i].attack_timer = 1500
                               /\ bobbas'[i].has_hit_this_attack = 0
                               /\ bobbas'[i].pos = bobbas[i].pos
                          ELSE bobbas'[i].state = BOBBA_CHASING ]_vars

\* The Bobba is chasing the nearer of two active sessions, having come
\* closer to it than its spawn position was, and has not attacked yet.
C28_Witness ==
    /\ pc = "cleanup"
    /\ Cardinality(ActiveSessions) = 2
    /\ bobbas[0].state = BOBBA_CHASING
    /\ attack[0].hits = 0
    /\ bobbas[0].pos # BOBBA_SPAWN
    /\ \E j \in ActiveSessions :
          /\ bobbas[0].target_player_id = players[j].player_id
          /\ \A k \in ActiveSessions \ {j} :
                Dist2(bobbas[0].pos, players[j].data.pos)
                  < Dist2(bobbas[0].pos, players[k].data.pos)
          /\ Dist2(bobbas[0].pos, players[j].data.pos)
               < Dist2(BOBBA_SPAWN, players[j].data.pos)

\* The Bobba of slot i is chasing a bound target and is not stunned.
Chasing(i) ==
    /\ bobbas[i].active = 1
    /\ bobbas[i].state = BOBBA_CHASING
    /\ bobbas[i].target_player_id # 0
    /\ bobbas[i].stun_timer <= 0

\* The slots of the active session the Bobba of slot i is bound to.
TargetOf(i) ==
    { j \in ActiveSessions :
        players[j].player_id = bobbas[i].target_player_id }

InSight(i) ==
    \E j \in ActiveSessions :
       Within(bobbas[i].pos, players[j].data.pos, BOBBA_DETECTION_RADIUS)

\* C29: on an AI tick for a chasing chaser, a target that is no active
\* session or is farther than the lose radius of 20 is dropped, and the
\* chaser is roaming after the tick unless an active player is within its
\* detection radius; a target within the attack distance of 2 makes the
\* chaser attacking, hit flag clear, attack timer 1.5 s, without a move;
\* otherwise the chaser is still chasing the same target.
C29_ChasingTick ==
    [][ AiTick /\ ~test_multiplayer
        => \A i \in BobbaSlots :
              Chasing(i)
              => IF \A j \in TargetOf(i) :
                       ~Within(bobbas[i].pos, players[j].data.pos,
                               BOBBA_LOSE_RADIUS)
                 THEN /\ bobbas'[i].target_player_id
                           # bobbas[i].target_player_id
                      /\ ~InSight(i)
                         => /\ bobbas'[i].target_player_id = 0
                            /\ bobbas'[i].state = BOBBA_ROAMING
                 ELSE IF \E j \in TargetOf(i) :
                            Within(bobbas[i].pos, players[j].data.pos,
                                   BOBBA_ATTACK_DISTANCE)
                 THEN /\ bobbas'[i].state = BOBBA_ATTACKING
                      /\ bobbas'[i].has_hit_this_attack = 0
                      /\ bobbas'[i].attack_timer = 1500
                      /\ bobbas'[i].pos = bobbas[i].pos
                      /\ bobbas'[i].target_player_id
                           = bobbas[i].target_player_id
                 ELSE /\ bobbas'[i].state = BOBBA_CHASING
                      /\ bobbas'[i].target_player_id
                           = bobbas[i].target_player_id ]_vars

\* The Bobba has chased a session, lost it to the distance and is roaming
\* again, unbound, in a direction picked in this tick, while the session is
\* still active beyond the lose radius.
C29_Witness ==
    /\ pc = "cleanup"
    /\ bobbas[0].state = BOBBA_ROAMING
    /\ bobbas[0].target_player_id = 0
    /\ bobbas[0].roam_timer = BOBBA_ROAM_CHANGE_TIME - 500
    /\ bobbas[0].pos[1] > BOBBA_SPAWN[1] + BOBBA_ROAM_SPEED
    /\ ActiveSessions # {}
    /\ \A j \in ActiveSessions :
          ~Within(bobbas[0].pos, players[j].data.pos, BOBBA_LOSE_RADIUS)

\* ------------------------------------------------------------ patrol laps
\* The patrol specification: the loop runs long enough for the dragon to
\* fly its laps and go to land, the AI update coming once a second; one
\* endpoint joins at some point and receives the snapshots.
PatrolDelta == 1000

PatrolRun == 30 * MaxSeq

PatrolBounded == state_sequence' <= PatrolRun

NextPatrol ==
    \/ issued = <<>> /\ handle_join(Silent, 0, 1) /\ PatrolBounded
    \/ main_no_datagram
    \/ state_sequence + 3 <= PatrolRun /\ periodic_broadcast
    \/ periodic_not_due
    \/ periodic_entity_update(PatrolDelta, <<1, 0>>)
    \/ cleanup_not_due

SpecPatrol == Init /\ [][NextPatrol]_vars

Patrolling(i) == dragons[i].active = 1 /\ dragons[i].state = DRAGON_PATROL

\* C30: while a patroller is in patrol, a tick that takes its patrol angle
\* to 2*pi wraps the angle and raises the lap counter by one; when the
\* counter reaches 2 the patroller goes to flying-to-land and the counter is
\* back at zero in the same tick; so the lap count held after any step,
\* and reported in any entity-state snapshot, is 0 or 1.
C30_LapsWrapAndReset ==
    [][ /\ AiTick /\ ~test_multiplayer
           => \A i \in DragonSlots :
                 Patrolling(i)
                 => IF dragons[i].patrol_angle + PatrolDelta >= TWO_PI
                    THEN /\ dragons'[i].patrol_angle
                              = dragons[i].patrol_angle + PatrolDelta - TWO_PI
                         /\ IF dragons[i].laps_completed + 1 >= 2
                            THEN /\ dragons'[i].laps_completed = 0
                                 /\ dragons'[i].state = DRAGON_FLYING_TO_LAND
                            ELSE /\ dragons'[i].laps_completed
                                      = dragons[i].laps_completed + 1
                                 /\ dragons'[i].state = DRAGON_PATROL
                    ELSE /\ dragons'[i].patrol_angle
                              = dragons[i].patrol_angle + PatrolDelta
                         /\ dragons'[i].laps_completed
                              = dragons[i].laps_completed
                         /\ dragons'[i].state = DRAGON_PATROL
        /\ \A i \in DragonSlots : dragons'[i].laps_completed \in { 0, 1 }
        /\ \A k \in 1..Len(sent') :
              sent'[k].type = PKT_ENTITY_STATE
              => \A e \in 1..Len(sent'[k].body.entities) :
                    sent'[k].body.entities[e].entity_type = ENTITY_DRAGON
                    => sent'[k].body.entities[e].extra1 \in { 0, 1 } ]_vars

\* The dragon has just ended its second lap: it is flying to land with the
\* angle wrapped and the lap counter back at zero, and the snapshot of the
\* tick says so to a session.
C30_Witness ==
    /\ pc = "cleanup"
    /\ dragons[0].state = DRAGON_FLYING_TO_LAND
    /\ dragons[0].laps_completed = 0
    /\ dragons[0].patrol_angle < PatrolDelta
    /\ Len(sent) = 1
    /\ sent[1].type = PKT_ENTITY_STATE
    /\ Len(sent[1].to) = 1
    /\ \E e \in 1..Len(sent[1].body.entities) :
          /\ sent[1].body.entities[e].entity_type = ENTITY_DRAGON
          /\ sent[1].body.entities[e].state = DRAGON_FLYING_TO_LAND
          /\ sent[1].body.entities[e].extra1 = 0

\* ------------------------------------------------------------ landing
\* The landing specification: the AI update comes once a second and the
\* dragon flies its laps, lands, waits and takes off again.  The endpoints
\* turn up once the dragon comes down: the first moves between a place
\* next to the landing spot, a place within the attack range of it and a
\* place at exactly the attack range, strikes the dragon, asks for a
\* restart and leaves; the second stays next to the landing spot.
LAND_NEAR == << 10 * UNIT, 0, 50 * UNIT >>
LAND_EDGE == << 30 * UNIT, 5 * UNIT, 50 * UNIT >>
LAND_BRINK == << 40 * UNIT, 5 * UNIT, 50 * UNIT >>

LandPlaces == { LAND_EDGE, LAND_BRINK }

LandRun == 38 * MaxSeq

LandBounded == state_sequence' <= LandRun

Arrived == dragons[0].state \notin { DRAGON_PATROL, DRAGON_FLYING_TO_LAND }

Bystander == 2

NextLand ==
    \/ \E a \in { Silent, Bystander } :
          Arrived /\ heard[a] = NULL /\ handle_join(a, 0, 1) /\ LandBounded
    \/ \E p \in LandPlaces :
          OwnId(Silent) # 0 /\ handle_update(Silent, OwnId(Silent), Moved(p))
    \/ /\ OwnId(Bystander) # 0
       /\ handle_update(Bystander, OwnId(Bystander), Moved(LAND_NEAR))
    \/ OwnId(Silent) # 0 /\ handle_leave(Silent, OwnId(Silent)) /\ LandBounded
    \/ main_no_datagram
    \/ state_sequence + 3 <= LandRun /\ periodic_broadcast
    \/ periodic_not_due
    \/ periodic_entity_update(PatrolDelta, <<1, 0>>)
    \/ cleanup_not_due

SpecLand == Init /\ [][NextLand]_vars

\* The same flight with one endpoint, which also strikes the dragon once
\* and asks for restarts.
NextRoost ==
    \/ Arrived /\ heard[Silent] = NULL /\ handle_join(Silent, 0, 1)
          /\ LandBounded
    \/ \E p \in LandPlaces :
          OwnId(Silent) # 0 /\ handle_update(Silent, OwnId(Silent), Moved(p))
    \/ OwnId(Silent) # 0 /\ handle_leave(Silent, OwnId(Silent)) /\ LandBounded
    \/ /\ Arrived /\ OwnId(Silent) # 0 /\ dragons[0].health = 500
       /\ handle_entity_damage_server(Silent, OwnId(Silent), 2, 60,
                                      OwnId(Silent), {<<1, 0>>}, {1})
    \/ /\ Arrived /\ OwnId(Silent) # 0
       /\ main_game_restart(Silent, OwnId(Silent), 2, {<<1, 0>>}, {1})
       /\ LandBounded
    \/ main_no_datagram
    \/ state_sequence + 3 <= LandRun /\ periodic_broadcast
    \/ periodic_not_due
    \/ periodic_entity_update(PatrolDelta, <<1, 0>>)
    \/ cleanup_not_due

SpecRoost == Init /\ [][NextRoost]_vars

Waiting(i) == dragons[i].active = 1 /\ dragons[i].state = DRAGON_WAIT

\* The active sessions closer than the attack range to the dragon of slot i.
InRange(i) ==
    { j \in ActiveSessions :
        Inside(dragons[i].pos, players[j].data.pos, DRAGON_ATTACK_RANGE) }

\* The identifiers of the sessions of InRange(i) that are nearest to it.
NearestInRange(i) ==
    { players[j].player_id : j \in
        { j \in InRange(i) : \A k \in InRange(i) :
            Dist2(dragons[i].pos, players[j].data.pos)
               <= Dist2(dragons[i].pos, players[k].data.pos) } }

\* C31: on every AI tick of a patroller in wait the wait timer grows by the
\* delta; if an active player is within the attack range the patroller
\* goes to attacking, bound to the nearest such player and with an attack
\* timer of 2 s, also when the wait timer has reached 5 s; otherwise it
\* goes to taking-off exactly when the wait timer has reached 5 s.
C31_WaitAttacksBeforeTakeOff ==
    [][ AiTick /\ ~test_multiplayer
        => \A i \in DragonSlots :
              Waiting(i)
              => /\ dragons'[i].wait_timer
                      = dragons[i].wait_timer + PatrolDelta
                 /\ IF InRange(i) # {}
                    THEN /\ dragons'[i].state = DRAGON_ATTACKING
                         /\ dragons'[i].attack_timer = 2000
                         /\ dragons'[i].target_player_id \in NearestInRange(i)
                    ELSE IF dragons[i].wait_timer + PatrolDelta >= 5000
                    THEN dragons'[i].state = DRAGON_TAKING_OFF
                    ELSE dragons'[i].state = DRAGON_WAIT ]_vars

\* The dragon has waited out its 5 s and attacks all the same: two sessions
\* came within range before the tick, and it is bound to the nearer one,
\* which is not the one of the first slot.
C31_Witness ==
    /\ pc = "cleanup"
    /\ dragons[0].state = DRAGON_ATTACKING
    /\ dragons[0].wait_timer = DRAGON_WAIT_TIME
    /\ dragons[0].attack_timer = DRAGON_ATTACK_TIME
    /\ InRange(0) = { 0, 1 }
    /\ dragons[0].target_player_id = players[1].player_id
    /\ NearestInRange(0) = { players[1].player_id }

DragonAttacks(i) ==
    dragons[i].active = 1 /\ dragons[i].state = DRAGON_ATTACKING

\* The bound target of the dragon of slot i is an active session within
\* the attack range.
TargetInRange(i) ==
    \E j \in InRange(i) : players[j].player_id = dragons[i].target_player_id

DragonIds == { dragons[i].entity_id : i \in DragonSlots }

\* C32: a patroller in attacking keeps its position and its bound target
\* in every step; an AI tick before the attack timer expires leaves it in
\* attacking with the timer lowered by the delta; the tick where the timer
\* expires restarts the 2 s attack if the bound target is still an active
\* session within attack range and otherwise returns it to wait with the
\* wait timer at zero; no player-damage message names a patroller as the
\* attacker.
C32_AttackHoldsUntilExpiry ==
    [][ /\ \A i \in DragonSlots :
              DragonAttacks(i)
              => /\ dragons'[i].pos = dragons[i].pos
                 /\ dragons'[i].target_player_id = dragons[i].target_player_id
                 /\ AiTick /\ ~test_multiplayer
                    => IF dragons[i].attack_timer - PatrolDelta > 0
                       THEN /\ dragons'[i].state = DRAGON_ATTACKING
                            /\ dragons'[i].attack_timer
                                 = dragons[i].attack_timer - PatrolDelta
                       ELSE IF TargetInRange(i)
                       THEN /\ dragons'[i].state = DRAGON_ATTACKING
                            /\ dragons'[i].attack_timer = 2000
                       ELSE /\ dragons'[i].state = DRAGON_WAIT
                            /\ dragons'[i].wait_timer = 0
                 /\ ~AiTick => dragons'[i].state = DRAGON_ATTACKING
        /\ \A k \in 1..Len(sent') :
              sent'[k].type = PKT_PLAYER_DAMAGE
              => sent'[k].body.attacker_entity_id \notin DragonIds ]_vars

\* The attack of the dragon has run out with its target gone: the session
\* it was bound to is no longer active, another session is still within
\* range, and the dragon is back in wait with the wait timer at zero.
C32_Witness ==
    /\ pc = "cleanup"
    /\ dragons[0].state = DRAGON_WAIT
    /\ dragons[0].wait_timer = 0
    /\ dragons[0].attack_timer <= 0
    /\ dragons[0].target_player_id # 0
    /\ find_player_by_id(players, dragons[0].target_player_id) = NULL
    /\ InRange(0) # {}

\* The transitions of the patroller's state machine.
DragonEdges ==
    { << DRAGON_PATROL, DRAGON_FLYING_TO_LAND >>,
      << DRAGON_FLYING_TO_LAND, DRAGON_LANDING >>,
      << DRAGON_LANDING, DRAGON_WAIT >>,
      << DRAGON_WAIT, DRAGON_ATTACKING >>,
      << DRAGON_WAIT, DRAGON_TAKING_OFF >>,
      << DRAGON_ATTACKING, DRAGON_WAIT >>,
      << DRAGON_TAKING_OFF, DRAGON_PATROL >> }

\* C33: outside multiplayer-test mode a patroller's state changes only in
\* an AI tick and then along one edge of the state machine; every other
\* step (entity damage, restart, the session messages, the broadcast)
\* leaves its state, position and timers as they are.
C33_StateChangesOnlyInTickAlongEdges ==
    [][ ~test_multiplayer
        => \A i \in DragonSlots :
              /\ dragons'[i].state # dragons[i].state
                 => /\ AiTick
                    /\ << dragons[i].state, dragons'[i].state >> \in DragonEdges
              /\ ~AiTick
                 => /\ dragons'[i].state = dragons[i].state
                    /\ dragons'[i].pos = dragons[i].pos
                    /\ dragons'[i].wait_timer = dragons[i].wait_timer
                    /\ dragons'[i].attack_timer = dragons[i].attack_timer ]_vars

\* A restart request has just been dispatched while the dragon, struck
\* before, is in the middle of an attack: it is attacking still.
C33_Witness ==
    /\ lastIn.type = PKT_GAME_RESTART
    /\ pc = "broadcast"
    /\ dragons[0].state = DRAGON_ATTACKING
    /\ dragons[0].attack_timer = 1000
    /\ dragons[0].health = 440

\* ------------------------------------------------------------ the cycle
\* The cycle specification: the loop runs for ever, the broadcast and the
\* AI update are due in every iteration and the counter wraps.  One
\* endpoint joins before the first update or not at all, and stays where
\* it is spawned, far from the landing spot; nobody strikes the dragon.
\* The AI update comes once a second; with the session to serve the loop
\* stalls while the dragon flies to land, and the update then comes 1.4 s
\* after the last.  The Bobba roams to and fro: each new roam direction
\* drawn points back to its spawn position.
StallDelta == 1400

CycleDelta ==
    IF dragons[0].state = DRAGON_FLYING_TO_LAND /\ ActiveSessions # {}
    THEN StallDelta ELSE PatrolDelta

TurnsHome ==
    IF bobbas[0].pos[1] > BOBBA_SPAWN[1] THEN << -1, 0 >> ELSE << 1, 0 >>

NextCycle ==
    \/ state_sequence = 0 /\ heard[Silent] = NULL /\ handle_join(Silent, 0, 1)
    \/ main_no_datagram
    \/ periodic_broadcast
    \/ periodic_entity_update(CycleDelta, TurnsHome)
    \/ cleanup_not_due

\* The loop keeps running: a recvfrom that has nothing returns, the
\* broadcast and the AI update, whose timers have always run out, are
\* carried out, and the clean-up that is not due is passed.
SpecCycle ==
    /\ Init
    /\ [][NextCycle]_vars
    /\ WF_vars(main_no_datagram)
    /\ []<>(pc = "cleanup")
    /\ WF_vars(cleanup_not_due)

\* C34: with AI ticks of a positive delta coming for ever, the patroller
\* active and no active player within the attack range of the landing
\* spot, the patroller is in wait again and again and in patrol again and
\* again: it goes round the cycle for ever and is never stuck in a state.
C34_CycleRepeatsForever ==
    /\ []<>(dragons[0].state = DRAGON_WAIT)
    /\ []<>(dragons[0].state = DRAGON_PATROL)

\* Without the session the loop never stalls, and the dragon goes round
\* its cycle for ever.
CycleRepeatsWithoutStall ==
    [](ActiveSessions = {}) => C34_CycleRepeatsForever

\* ------------------------------------------------------------ snapshots
\* The watch specification: the restart specification with a second
\* endpoint that asks to spectate.
NextWatch ==
    \/ JoinsOnce(Silent)
    \/ handle_update(Silent, OwnId(Silent), Moved(NEAR_BOBBA))
    \/ \E w \in Blows : Strikes(Silent, w[1], w[2])
    \/ /\ main_game_restart(Silent, OwnId(Silent), 2, {<<1, 0>>}, {1})
       /\ FightBounded
    \/ LeavesOwn(Silent)
    \/ handle_spectate(Bystander, 0)
    \/ main_no_datagram
    \/ state_sequence + 3 <= FightRun /\ periodic_broadcast
    \/ periodic_not_due
    \/ periodic_entity_update(500, <<1, 0>>)
    \/ cleanup_not_due

SpecWatch == Init /\ [][NextWatch]_vars

\* The records of the snapshot `m` that tell of the NPC `e` of the given
\* type: its identifier, state and health as they stand.
RecordsOf(m, type, e) ==
    { n \in 1..Len(m.body.entities) :
        /\ m.body.entities[n].entity_type = type
        /\ m.body.entities[n].entity_id = e.entity_id
        /\ m.body.entities[n].state = e.state
        /\ m.body.entities[n].health = e.health }

\* C35: every entity-state snapshot lists the NPCs that are active when it
\* is emitted, each once and no other, the chasers before the patrollers,
\* each record with the identifier, state and health the NPC has; its
\* count is the number of its records; it goes to every active session and
\* every active spectator, and to nobody else.
C35_EntityStateListsActiveNpcs ==
    \A k \in 1..Len(sent) :
       sent[k].type = PKT_ENTITY_STATE
       => LET m == sent[k]
              n == Len(m.body.entities)
              live == Cardinality({ i \in BobbaSlots : bobbas[i].active = 1 })
                      + Cardinality({ i \in DragonSlots :
                                        dragons[i].active = 1 })
          IN  /\ m.body.entity_count = n
              /\ n = live
              /\ \A i \in BobbaSlots :
                    bobbas[i].active = 1
                    => Cardinality(RecordsOf(m, ENTITY_BOBBA, bobbas[i])) = 1
              /\ \A i \in DragonSlots :
                    dragons[i].active = 1
                    => Cardinality(RecordsOf(m, ENTITY_DRAGON, dragons[i])) = 1
              /\ \A a, b \in 1..n :
                    /\ m.body.entities[a].entity_type = ENTITY_DRAGON
                    /\ m.body.entities[b].entity_type = ENTITY_BOBBA
                    => b < a
              /\ { m.to[j] : j \in 1..Len(m.to) }
                   = { players[i].addr : i \in ActiveSessions }
                     \cup { spectators[i].addr : i \in ActiveSpectators }

\* The dragon has been struck dead and the AI update has just sent a
\* snapshot: it lists the Bobba alone and goes to the session and to the
\* spectator.
C35_Witness ==
    /\ pc = "cleanup"
    /\ dragons[0].active = 0
    /\ bobbas[0].active = 1
    /\ \E k \in 1..Len(sent) :
          /\ sent[k].type = PKT_ENTITY_STATE
          /\ sent[k].body.entity_count = 1
          /\ Len(sent[k].to) = 2
    /\ ActiveSessions # {}
    /\ ActiveSpectators # {}

\* The messages stamped with the counter among those the step sends, and
\* how many of them have gone out when the k-th message does.
Emissions == { k \in 1..Len(sent') : sent'[k].type \in CounterKinds }

Rank(k) == Cardinality({ j \in Emissions : j <= k })

\* C36: every world-state, entity-state, player-damage and game-restart
\* message the server emits takes the counter one further and carries the
\* new value, whatever its kind and whoever it goes to (one datagram is
\* built and sent to all its recipients); no other message moves the
\* counter, so the counter is the number of the latest emission and the
\* numbers rise by one from emission to emission, strictly as long as the
\* counter has not wrapped; the state-sequence field of a world-state is
\* its header sequence.
C36_EmissionsCountUpByOne ==
    [][ /\ \A k \in Emissions :
              /\ sent'[k].sequence
                   = (state_sequence + Rank(k)) % SeqModulus
              /\ sent'[k].type = PKT_WORLD_STATE
                 => sent'[k].body.state_seq = sent'[k].sequence
              /\ state_sequence + Rank(k) < SeqModulus
                 => /\ sent'[k].sequence > state_sequence
                    /\ \A j \in Emissions :
                          j < k => sent'[j].sequence < sent'[k].sequence
        /\ state_sequence'
             = (state_sequence + Cardinality(Emissions)) % SeqModulus
        /\ \/ \A kind \in CounterKinds : lastSeq'[kind] = -1
           \/ \E kind \in CounterKinds : lastSeq'[kind] = state_sequence'
      ]_vars

\* A restart has just gone out to a session and a spectator after earlier
\* snapshots and a blow of the Bobba: the game-restart, the entity-state
\* and the world-state carry three numbers in a row, the last of them the
\* counter, and the world-state goes to both endpoints.
C36_Witness ==
    /\ Len(sent) = 3
    /\ sent[1].type = PKT_GAME_RESTART
    /\ sent[2].type = PKT_ENTITY_STATE
    /\ sent[3].type = PKT_WORLD_STATE
    /\ sent[2].sequence = sent[1].sequence + 1
    /\ sent[3].sequence = sent[2].sequence + 1
    /\ sent[3].sequence = state_sequence
    /\ sent[3].body.state_seq = state_sequence
    /\ Len(sent[3].to) = 2
    /\ lastSeq[PKT_PLAYER_DAMAGE] > 0
    /\ lastSeq[PKT_PLAYER_DAMAGE] < sent[1].sequence

\* ------------------------------------------------------------ two roles
\* C37: no endpoint is at once an active spectator and the endpoint of an
\* active session, also after a spectate from an endpoint that has a
\* session; so no message goes to the same endpoint twice.
C37_NoEndpointInBothTables ==
    /\ \A i \in ActiveSessions, j \in ActiveSpectators :
          ~SameAddr(players[i].addr, spectators[j].addr)
    /\ \A k \in 1..Len(sent) :
          \A a, b \in 1..Len(sent[k].to) :
             SameAddr(sent[k].to[a], sent[k].to[b]) => a = b

\* ------------------------------------------------------------ lingering
\* The lingering specification: the endpoints of the crowd ask to spectate
\* one after the other at time 0, each once, and are silent from then on;
\* the first of them may join while it spectates; the late endpoint asks to
\* spectate when it likes; the clock jumps past the timeout and the reaper
\* runs.
NextLinger ==
    \/ \E a \in Crowd :
          /\ heard[a] = NULL
          /\ now = 0
          /\ \A b \in Crowd : b < a => heard[b] # NULL
          /\ handle_spectate(a, 0)
    \/ handle_spectate(Late, 0)
    \/ /\ find_spectator_by_addr(spectators, Silent) # NULL
       /\ handle_join(Silent, 0, 1)
       /\ Bounded
    \/ main_no_datagram
    \/ periodic_not_due
    \/ periodic_cleanup
    \/ cleanup_not_due
    \/ clock_tick(PLAYER_TIMEOUT_SEC + 1) /\ Bounded

SpecLinger == Init /\ [][NextLinger]_vars

\* C38: an active spectator entry is deactivated only by a join from its
\* own endpoint; the reaper leaves the spectator table as it is, however
\* old the entries are; and once silent endpoints hold all 32 entries a
\* spectate from any other endpoint is dropped: nothing is sent and the
\* table stays as it is.
C38_SpectatorsNeverExpire ==
    [][ /\ \A j \in SpectatorSlots :
              spectators[j].active = 1 /\ spectators'[j].active = 0
              => /\ Dispatches(PKT_JOIN)
                 /\ SameAddr(lastIn'.from, spectators[j].addr)
        /\ ReaperStep => spectators' = spectators
        /\ ( /\ Dispatches(PKT_SPECTATE)
             /\ \A j \in SpectatorSlots : spectators[j].active = 1
             /\ find_spectator_by_addr(spectators, lastIn'.from) = NULL )
           => /\ sent' = <<>>
              /\ spectators' = spectators ]_vars

\* The reaper has just run with the clock past the timeout of all 32
\* spectator entries, which were taken at time 0 by the crowd: they are all
\* active still, and the late endpoint is not among them.
C38_Witness ==
    /\ pc = "recv"
    /\ now > PLAYER_TIMEOUT_SEC
    /\ heard[Late] # NULL
    /\ find_spectator_by_addr(spectators, Late) = NULL
    /\ \A j \in SpectatorSlots :
          /\ spectators[j].active = 1
          /\ now - spectators[j].last_seen > PLAYER_TIMEOUT_SEC

\* ------------------------------------------------------------ re-join
\* C39: a join from an endpoint that holds an active session changes, in
\* the session table, the last_seen of that session and nothing else (no
\* second session, the identifier and the player-state record as they
\* were); no identifier is consumed, the outbound counter stays, and
\* nothing is sent: no join-ack and no world-state snapshot.
C39_RejoinOnlyRefreshes ==
    [][ Dispatches(PKT_JOIN)
        => \A i \in ActiveSessions :
              SameAddr(players[i].addr, lastIn'.from)
              => /\ players' = [players EXCEPT ![i].last_seen = now]
                 /\ next_player_id' = next_player_id
                 /\ state_sequence' = state_sequence
                 /\ sent' = <<>> ]_vars

\* A join has just been handled whose sender holds a session that is older
\* than the join: the session has moved from its spawn position, its
\* last_seen is the present time, and nothing was sent.
C39_Witness ==
    /\ pc = "broadcast"
    /\ lastIn.type = PKT_JOIN
    /\ sent = <<>>
    /\ now > 0
    /\ \E i \in ActiveSessions :
          /\ SameAddr(players[i].addr, lastIn.from)
          /\ players[i].last_seen = now
          /\ players[i].data.pos = MovedAway.pos

\* ------------------------------------------------------------ stun
\* The stun specification: one endpoint joins, moves next to the Bobba or
\* out of its reach, leaves, and
\* strikes the Bobba with blows of 30 that name its own session or nobody
\* as the attacker (the fourth blow kills the Bobba and restarts the game);
\* the AI update comes after 0.2 s or after 1.6 s.
StunDeltas == { 200, 1600 }

StunPlaces == { NEAR_BOBBA, FAR_OFF }

Attackers == { 0, OwnId(Silent) }

NextStun ==
    \/ JoinsOnce(Silent)
    \/ \E p \in StunPlaces :
          handle_update(Silent, OwnId(Silent), Moved(p))
    \/ \E by \in Attackers :
          /\ handle_entity_damage_server(Silent, OwnId(Silent), 1, 30, by,
                                         {<<1, 0>>}, {1})
          /\ FightBounded
    \/ LeavesOwn(Silent)
    \/ main_no_datagram
    \/ state_sequence + 3 <= FightRun /\ periodic_broadcast
    \/ periodic_not_due
    \/ \E d \in StunDeltas : periodic_entity_update(d, <<1, 0>>)
    \/ cleanup_not_due

SpecStun == Init /\ [][NextStun]_vars

\* C40: outside multiplayer-test mode every active Bobba that is roaming
\* has target 0, every active Bobba that is chasing or attacking has a
\* target other than 0, and an active Bobba is stunned exactly when its stun
\* timer is positive; this holds after every step of the server.
C40_ChaserStateMatchesTargetAndStun ==
    ~test_multiplayer
    => \A i \in BobbaSlots :
          bobbas[i].active = 1
          => /\ bobbas[i].state = BOBBA_ROAMING
                => bobbas[i].target_player_id = 0
             /\ bobbas[i].state \in {BOBBA_CHASING, BOBBA_ATTACKING}
                => bobbas[i].target_player_id # 0
             /\ bobbas[i].state = BOBBA_STUNNED <=> bobbas[i].stun_timer > 0

\* An AI update has just ended the stun of a Bobba that was struck by
\* nobody while the session stood out of its sight: it roams with target 0.
C40_Witness ==
    /\ ~test_multiplayer
    /\ pc = "cleanup"
    /\ ActiveSessions # {}
    /\ \E i \in BobbaSlots :
          /\ bobbas[i].active = 1
          /\ bobbas[i].health < 100
          /\ bobbas[i].state = BOBBA_ROAMING
          /\ bobbas[i].target_player_id = 0
          /\ bobbas[i].stun_timer <= 0
====
